---- MODULE Spec2Model ----
(***************************************************************************)
(* Model of the AI Portrait Studio application state (src/index.tsx):      *)
(* the appReducer, the prompt compiler buildPrompt, the upload path        *)
(* processFiles, the single-image handleEnhance and the batch scheduler    *)
(* effect of App together with the completion callbacks of its calls.      *)
(*                                                                         *)
(* A state of the model is a reducer state plus the enhanceImage calls     *)
(* that have been started and have not returned.  A JavaScript object is   *)
(* a function from its own keys to values, so an optional field that is    *)
(* not set is a key missing from DOMAIN, and object spread is Merge.       *)
(* Free text is a sequence of one-character strings so that trim() is      *)
(* computed.  A compiled prompt is the sequence of its parts.              *)
(***************************************************************************)
EXTENDS Integers, Sequences, FiniteSets, TLC

VARIABLES ai, renderError, tools, history, historyIndex, currentImage, enhancedImage,
          isLoading, currentPrompt, userPresets, showBuiltInPresets, batchQueue,
          enhancedLibrary, calls, nextId, nextSingle, admitted

vars == <<ai, renderError, tools, history, historyIndex, currentImage, enhancedImage,
          isLoading, currentPrompt, userPresets, showBuiltInPresets, batchQueue,
          enhancedLibrary, calls, nextId, nextSingle, admitted>>

(* ---------- bounds ---------- *)
\* number of batch jobs ever enqueued
MaxJobs == 3
\* number of batch jobs ever enqueued next to the presets
MaxPresetJobs == 2
\* number of batch jobs ever enqueued next to an edit session
MaxEditJobs == 1
\* number of batch jobs ever enqueued next to single-image enhancements
MaxEnhanceJobs == 2
\* number of single-image enhancements ever started
MaxSingle == 1
\* number of entries the history may grow to
MaxHistory == 2
\* number of single-image enhancements ever started on the settings of the panel
MaxCompileSingle == 1
\* number of batch jobs ever enqueued next to the imported presets
MaxStoreJobs == 2
\* number of entries the history may grow to next to the imported presets
MaxStoreHistory == 2
\* number of batch jobs ever enqueued next to the library dialog
MaxLibraryJobs == 2
\* number of single-image enhancements ever started next to the library dialog
MaxLibrarySingle == 1
\* number of batch jobs ever enqueued, and of history entries, next to an
\* edit session and the controls of the queue
MaxSessionJobs == 2
MaxSessionHistory == 2
\* number of entries the history may grow to by hotkeys
MaxHotkeyHistory == 4
\* number of batch jobs ever enqueued under fair scheduling
MaxFairJobs == 3
\* number of batch jobs ever enqueued after the stored data was loaded
MaxStartupJobs == 1
\* number of batch jobs ever enqueued, and of single-image enhancements ever
\* started, while the image on screen is switched
MaxSwitchJobs == 3
MaxSwitchSingle == 1

(* ---------- constants ---------- *)
MAX_IMAGE_UPLOAD_SIZE_BYTES == 15 * 1024 * 1024
BATCH_CONCURRENCY == 2

\* null where a string is expected, and null where an ImageFile is expected
Null == "null"
NullImage == [isNull |-> TRUE]

(* ---------- generic helpers ---------- *)
\* { ...r, ...s }
Merge(r, s) == [k \in (DOMAIN r) \cup (DOMAIN s) |-> IF k \in DOMAIN s THEN s[k] ELSE r[k]]

Has(o, k) == k \in DOMAIN o

\* Array.prototype.slice(0, n)
Slice0(s, n) == SubSeq(s, 1, IF n < Len(s) THEN n ELSE Len(s))

\* String.prototype.trim on a sequence of characters
RECURSIVE TrimLeft(_)
TrimLeft(s) == IF s # <<>> /\ Head(s) = " " THEN TrimLeft(Tail(s)) ELSE s
RECURSIVE TrimRight(_)
TrimRight(s) == IF s # <<>> /\ s[Len(s)] = " " THEN TrimRight(SubSeq(s, 1, Len(s) - 1)) ELSE s
Trim(s) == TrimRight(TrimLeft(s))

\* String.prototype.toUpperCase on the values of preserveDetails.strength
ToUpperCase(s) == CASE s = "medium" -> "MEDIUM" [] s = "high" -> "HIGH" [] OTHER -> s

(* ---------- state ---------- *)
initialToolStates ==
  [ superResolution |-> [enabled |-> TRUE, upscale |-> "2x"],
    colorTone |-> [enabled |-> TRUE, whiteBalance |-> "auto",
                   temp |-> 0, tint |-> 0, exposure |-> 0, contrast |-> 0,
                   highlights |-> 0, shadows |-> 0, vibrance |-> 0, saturation |-> 0,
                   skinTone |-> "neutral"],
    facialRetouch |-> [enabled |-> TRUE, intensity |-> "low", eyeEnhance |-> TRUE, teethWhiten |-> TRUE],
    preserveDetails |-> [enabled |-> FALSE, strength |-> "medium"],
    hairStyling |-> [enabled |-> TRUE, mode |-> "color", color |-> "#5C3D2E", customInstruction |-> <<>>],
    background |-> [enabled |-> FALSE, mode |-> "keep", solidColor |-> "#ffffff", customInstruction |-> <<>>],
    crop |-> [enabled |-> FALSE, aspectRatio |-> "original"],
    distractions |-> [enabled |-> FALSE, list |-> <<>>],
    noiseAndOptics |-> [enabled |-> FALSE, lumaNoise |-> 0, chromaNoise |-> 0, caFix |-> 0,
                        vignette |-> 0, distortion |-> 0] ]

(* ---------- presets ---------- *)
BUILT_IN_PRESETS ==
  << [id |-> "builtin_linkedin", name |-> "LinkedIn Clean", isBuiltIn |-> TRUE,
      tools |-> [initialToolStates EXCEPT
                   !.colorTone = Merge(initialToolStates.colorTone, [enabled |-> TRUE, exposure |-> 1, contrast |-> 1]),
                   !.distractions = [enabled |-> TRUE, list |-> <<"l", "i", "n", "t">>]]],
     [id |-> "builtin_studio", name |-> "Studio Neutral", isBuiltIn |-> TRUE,
      tools |-> [initialToolStates EXCEPT
                   !.background = Merge(initialToolStates.background,
                                        [enabled |-> TRUE, mode |-> "solid", solidColor |-> "#e0e0e0"])]],
     [id |-> "builtin_warm", name |-> "Soft Warm", isBuiltIn |-> TRUE,
      tools |-> [initialToolStates EXCEPT
                   !.colorTone = Merge(initialToolStates.colorTone,
                                       [enabled |-> TRUE, temp |-> 2, vibrance |-> 2, skinTone |-> "slightly warm"])]] >>

(* ---------- prompt ---------- *)
\* the pieces of a template string: literal text, an embedded number, an
\* embedded enum/colour string, an embedded free text
Lit(s) == [lit |-> s]
Num(n) == [num |-> n]
Str(s) == [str |-> s]
Txt(t) == [text |-> t]

hairClause(t) ==
  <<Lit("HAIR STYLING: mode:"), Str(t.hairStyling.mode)>>
    \o (IF t.hairStyling.mode = "color" THEN <<Lit(", color:"), Str(t.hairStyling.color)>> ELSE <<>>)
    \o (IF t.hairStyling.mode = "custom"
        THEN <<Lit(", instruction:"), Txt(t.hairStyling.customInstruction)>> ELSE <<>>)
    \o <<Lit("; maintain realistic texture/shine; precise masking; no color bleed.")>>

backgroundClause(t) ==
  <<Lit("BACKGROUND: mode:"), Str(t.background.mode)>>
    \o (IF t.background.mode = "solid" THEN <<Lit(", color:"), Str(t.background.solidColor)>> ELSE <<>>)
    \o (IF t.background.mode = "custom"
        THEN <<Lit(", instruction:"), Txt(t.background.customInstruction)>> ELSE <<>>)
    \o <<Lit("; hair-safe matting; realistic shadows; no halos/spill.")>>

colorClause(t) ==
  <<Lit("COLOR & EXPOSURE: WB"), Str(t.colorTone.whiteBalance)>>
    \o (IF t.colorTone.whiteBalance = "custom"
        THEN <<Lit("(temp:"), Num(t.colorTone.temp), Lit(", tint:"), Num(t.colorTone.tint), Lit(")")>>
        ELSE <<>>)
    \o <<Lit("; exposure"), Num(t.colorTone.exposure), Lit("; contrast"), Num(t.colorTone.contrast),
         Lit("; highlights/shadows recover; vibrance"), Num(t.colorTone.vibrance),
         Lit("; saturation"), Num(t.colorTone.saturation),
         Lit("; skin tone"), Str(t.colorTone.skinTone), Lit(".")>>

corrections(t) ==
     (IF t.noiseAndOptics.lumaNoise > 0
      THEN << <<Lit("luma noise reduction ("), Num(t.noiseAndOptics.lumaNoise), Lit("/10)")>> >> ELSE <<>>)
  \o (IF t.noiseAndOptics.chromaNoise > 0
      THEN << <<Lit("chroma noise reduction ("), Num(t.noiseAndOptics.chromaNoise), Lit("/10)")>> >> ELSE <<>>)
  \o (IF t.noiseAndOptics.caFix > 0
      THEN << <<Lit("chromatic aberration correction ("), Num(t.noiseAndOptics.caFix), Lit("/10)")>> >> ELSE <<>>)
  \o (IF t.noiseAndOptics.vignette # 0
      THEN << <<Lit("vignette correction ("), Num(t.noiseAndOptics.vignette), Lit("/10)")>> >> ELSE <<>>)
  \o (IF t.noiseAndOptics.distortion # 0
      THEN << <<Lit("lens distortion correction ("), Num(t.noiseAndOptics.distortion), Lit("/10)")>> >> ELSE <<>>)

\* corrections.join(', ')
RECURSIVE Join(_)
Join(cs) == IF Len(cs) = 0 THEN <<>>
            ELSE IF Len(cs) = 1 THEN cs[1]
            ELSE cs[1] \o <<Lit(", ")>> \o Join(Tail(cs))

\* the ops array of buildPrompt before numbering
promptOps(t) ==
     (IF t.superResolution.enabled
      THEN << <<Lit("SUPER RESOLUTION: Perform a high-quality"), Str(t.superResolution.upscale),
                Lit("super-resolution upscale")>> >>
      ELSE <<>>)
  \o (IF t.colorTone.enabled THEN << colorClause(t) >> ELSE <<>>)
  \o (IF t.facialRetouch.enabled
      THEN << <<Lit("FACIAL RETOUCH (SUBTLE): intensity"), Str(t.facialRetouch.intensity),
                Lit("; eyes"), Str(IF t.facialRetouch.eyeEnhance THEN "on" ELSE "off"),
                Lit("; teeth"), Str(IF t.facialRetouch.teethWhiten THEN "on" ELSE "off"),
                Lit("; keep pores/texture")>> >>
      ELSE <<>>)
  \o (IF t.preserveDetails.enabled
      THEN << <<Lit("PRESERVE DETAILS ("), Str(ToUpperCase(t.preserveDetails.strength)), Lit(")")>> >>
      ELSE <<>>)
  \o (IF t.hairStyling.enabled /\ t.hairStyling.mode # "keep" THEN << hairClause(t) >> ELSE <<>>)
  \o (IF t.background.enabled THEN << backgroundClause(t) >> ELSE <<>>)
  \o (IF t.crop.enabled
      THEN << <<Lit("CROP/ROTATE: aspect"), Str(t.crop.aspectRatio), Lit("; straightened")>> >> ELSE <<>>)
  \o (IF t.distractions.enabled /\ Trim(t.distractions.list) # <<>>
      THEN << <<Lit("OBJECT REMOVAL: remove the following distractions:"),
                Txt(Trim(t.distractions.list)), Lit(". Fill the area")>> >>
      ELSE <<>>)
  \o (IF t.noiseAndOptics.enabled /\ Len(corrections(t)) > 0
      THEN << <<Lit("NOISE & OPTICS CORRECTION:")>> \o Join(corrections(t)) \o <<Lit(".")>> >> ELSE <<>>)

\* a compiler that numbers the operations from the last one pushed to the first
buildPromptNewestFirst(t) ==
  LET ops == promptOps(t)
      numberedOps == [i \in 1..Len(ops) |-> <<Num(i), Lit(")")>> \o ops[Len(ops) + 1 - i]]
  IN  <<  <<Lit("Enhance this PORTRAIT while preserving identity and realism."),
            Lit("ORDER OF OPERATIONS:")>> >>
      \o numberedOps
      \o << <<Lit("CONSISTENCY: same intensity across faces; consistent skin tone."),
              Lit("LIMITS: no style transfer; no makeup/clothing/body reshaping/new objects."),
              Lit("OUTPUT: single high-res PNG (sRGB).")>> >>

\* a compiler whose output clause names the crop aspect whether or not crop is enabled
buildPromptWithAspect(t) ==
  LET ops == promptOps(t)
      numberedOps == [i \in 1..Len(ops) |-> <<Num(i), Lit(")")>> \o ops[i]]
  IN  <<  <<Lit("Enhance this PORTRAIT while preserving identity and realism."),
            Lit("ORDER OF OPERATIONS:")>> >>
      \o numberedOps
      \o << <<Lit("CONSISTENCY: same intensity across faces; consistent skin tone."),
              Lit("LIMITS: no style transfer; no makeup/clothing/body reshaping/new objects."),
              Lit("OUTPUT: single high-res PNG (sRGB), aspect"), Str(t.crop.aspectRatio)>> >>

\* the compiled instruction: the header, the numbered operations, the closing clauses
buildPrompt(t) ==
  LET ops == promptOps(t)
      numberedOps == [i \in 1..Len(ops) |-> <<Num(i), Lit(")")>> \o ops[i]]
  IN  <<  <<Lit("Enhance this PORTRAIT while preserving identity and realism."),
            Lit("ORDER OF OPERATIONS:")>> >>
      \o numberedOps
      \o << <<Lit("CONSISTENCY: same intensity across faces; consistent skin tone."),
              Lit("LIMITS: no style transfer; no makeup/clothing/body reshaping/new objects."),
              Lit("OUTPUT: single high-res PNG (sRGB).")>> >>

\* the empty string, where a prompt is expected
EmptyPrompt == <<>>

(* ---------- the external service and the files a user can select ---------- *)
\* the data URL FileReader.readAsDataURL yields for a file
DataOf(name) == CASE name = "a.png" -> "data:a" [] name = "b.jpg" -> "data:b"
                  [] name = "huge.png" -> "data:huge" [] OTHER -> "data:other"
\* the data URL the service returns for an image
EnhancedOf(data) == CASE data = "data:a" -> "enhanced:a" [] data = "data:b" -> "enhanced:b"
                      [] OTHER -> "enhanced:other"

FileA == [name |-> "a.png", type |-> <<"image", "png">>, size |-> 1000]
FileB == [name |-> "b.jpg", type |-> <<"image", "jpeg">>, size |-> MAX_IMAGE_UPLOAD_SIZE_BYTES]
FileNotes == [name |-> "notes.txt", type |-> <<"text", "plain">>, size |-> 10]
FileHuge == [name |-> "huge.png", type |-> <<"image", "png">>, size |-> MAX_IMAGE_UPLOAD_SIZE_BYTES + 1]

\* the selections a user drops, pastes or picks: one image, two images, no
\* image, an image among other files, an oversized image
Selections == { <<FileA>>, <<FileA, FileB>>, <<FileNotes>>, <<FileNotes, FileB>>,
                <<FileHuge>>, <<FileA, FileHuge>> }

MissingKeyMessage == "Missing API key. Set AI_STUDIO_API_KEY, VITE_API_KEY, or process.env.API_KEY."
NoImageMessage == "The AI did not return an image. It may have refused the request."

(* ---------- the settings a user can arrive at in the tools panel ---------- *)
\* the keys of ToolStates
ToolNames == {"superResolution", "colorTone", "facialRetouch", "preserveDetails", "hairStyling",
              "background", "crop", "distractions", "noiseAndOptics"}

\* the selects, sliders and text areas of the panel in three positions: as they
\* start; every select moved, custom white balance, a custom hair style, a list
\* with blanks around it, two corrections; hair kept, a custom background, a
\* blank list, three other corrections
DetailsMoved ==
  [ superResolution |-> [enabled |-> TRUE, upscale |-> "4x"],
    colorTone |-> [enabled |-> TRUE, whiteBalance |-> "custom",
                   temp |-> 3, tint |-> -2, exposure |-> 1, contrast |-> -1,
                   highlights |-> 4, shadows |-> -4, vibrance |-> 2, saturation |-> -3,
                   skinTone |-> "slightly warm"],
    facialRetouch |-> [enabled |-> TRUE, intensity |-> "medium", eyeEnhance |-> FALSE, teethWhiten |-> TRUE],
    preserveDetails |-> [enabled |-> FALSE, strength |-> "high"],
    hairStyling |-> [enabled |-> TRUE, mode |-> "custom", color |-> "#000000", customInstruction |-> <<" ", "c">>],
    background |-> [enabled |-> FALSE, mode |-> "solid", solidColor |-> "#e0e0e0", customInstruction |-> <<>>],
    crop |-> [enabled |-> FALSE, aspectRatio |-> "1:1"],
    distractions |-> [enabled |-> FALSE, list |-> <<" ", "x", " ">>],
    noiseAndOptics |-> [enabled |-> FALSE, lumaNoise |-> 3, chromaNoise |-> 0, caFix |-> 0,
                        vignette |-> -2, distortion |-> 0] ]

DetailsCustom ==
  [ superResolution |-> [enabled |-> TRUE, upscale |-> "8x"],
    colorTone |-> [enabled |-> TRUE, whiteBalance |-> "auto",
                   temp |-> 5, tint |-> 5, exposure |-> 0, contrast |-> 0,
                   highlights |-> 0, shadows |-> 0, vibrance |-> 0, saturation |-> 0,
                   skinTone |-> "neutral"],
    facialRetouch |-> [enabled |-> TRUE, intensity |-> "low", eyeEnhance |-> TRUE, teethWhiten |-> FALSE],
    preserveDetails |-> [enabled |-> FALSE, strength |-> "medium"],
    hairStyling |-> [enabled |-> TRUE, mode |-> "keep", color |-> "#A47C5A", customInstruction |-> <<"d">>],
    background |-> [enabled |-> FALSE, mode |-> "custom", solidColor |-> "#ffffff", customInstruction |-> <<"b", " ">>],
    crop |-> [enabled |-> FALSE, aspectRatio |-> "16:9"],
    distractions |-> [enabled |-> FALSE, list |-> <<" ", " ">>],
    noiseAndOptics |-> [enabled |-> FALSE, lumaNoise |-> 0, chromaNoise |-> 2, caFix |-> 1,
                        vignette |-> 0, distortion |-> 4] ]

\* custom styles asked for with nothing but a blank, or nothing, typed; the
\* numbers of a group moved one by one from the defaults
DetailsBlank ==
  [ superResolution |-> [enabled |-> TRUE, upscale |-> "2x"],
    colorTone |-> [enabled |-> TRUE, whiteBalance |-> "auto",
                   temp |-> 0, tint |-> 0, exposure |-> 0, contrast |-> 0,
                   highlights |-> 3, shadows |-> 0, vibrance |-> 0, saturation |-> 0,
                   skinTone |-> "neutral"],
    facialRetouch |-> [enabled |-> TRUE, intensity |-> "low", eyeEnhance |-> TRUE, teethWhiten |-> TRUE],
    preserveDetails |-> [enabled |-> FALSE, strength |-> "medium"],
    hairStyling |-> [enabled |-> TRUE, mode |-> "custom", color |-> "#5C3D2E", customInstruction |-> <<" ">>],
    background |-> [enabled |-> FALSE, mode |-> "custom", solidColor |-> "#ffffff", customInstruction |-> <<>>],
    crop |-> [enabled |-> FALSE, aspectRatio |-> "original"],
    distractions |-> [enabled |-> FALSE, list |-> <<"x">>],
    noiseAndOptics |-> [enabled |-> FALSE, lumaNoise |-> 0, chromaNoise |-> 0, caFix |-> 0,
                        vignette |-> 0, distortion |-> 0] ]

DetailProfiles == {initialToolStates, DetailsMoved, DetailsCustom, DetailsBlank}

\* the settings t with exactly the tools of the set on switched on
WithFlags(t, on) == [g \in DOMAIN t |-> Merge(t[g], [enabled |-> g \in on])]

ToolSettings == {WithFlags(p, on) : p \in DetailProfiles, on \in SUBSET ToolNames}

(* ---------- the preset files a user can import ---------- *)
\* a preset saved with crop switched on
StoredCrop == [id |-> "user_1", name |-> "Crop",
               tools |-> [initialToolStates EXCEPT !.crop = [enabled |-> TRUE, aspectRatio |-> "1:1"]]]
\* a preset written without the noiseAndOptics group
StoredOld == [id |-> "user_2", name |-> "Old",
              tools |-> [g \in ToolNames \ {"noiseAndOptics"} |-> initialToolStates[g]]]
\* a preset with the id of StoredCrop, an entry flagged as built-in, an entry without a name
StoredCropAgain == [id |-> "user_1", name |-> "Crop again", tools |-> initialToolStates]
StoredBuiltIn == [id |-> "builtin_studio", name |-> "Studio Neutral", isBuiltIn |-> TRUE,
                  tools |-> initialToolStates]
StoredNameless == [id |-> "user_3", tools |-> initialToolStates]

\* the arrays the imported files parse to
PresetFiles == { <<StoredCrop>>,
                 <<StoredBuiltIn, StoredNameless, StoredCropAgain, StoredOld, StoredCrop>> }

(* ---------- reducer cases used by more than one handler ---------- *)
\* case "UPDATE_BATCH_ITEM"
UpdateBatchItem(queue, payload) ==
  [i \in 1..Len(queue) |-> IF queue[i].id = payload.id THEN Merge(queue[i], payload) ELSE queue[i]]

\* a reducer case that puts the new items in front of the queue
AddToBatchInFront(queue, files, t, base) ==
  [i \in 1..Len(files) |->
     [id |-> <<files[i].name, "batch", base + i>>, file |-> files[i],
      status |-> "pending", preset |-> t]] \o queue

\* case "ADD_TO_BATCH": the id of a new item is built from the file name and a
\* fresh (Date.now(), Math.random()) pair, modelled by a serial number
AddToBatch(queue, files, t, base) ==
  queue \o [i \in 1..Len(files) |->
              [id |-> <<files[i].name, "batch", base + i>>, file |-> files[i],
               status |-> "pending", preset |-> t]]

\* a reducer case that puts the new entry behind the others
AddToLibraryAtEnd(library, item) == SelectSeq(library, LAMBDA x : x.id # item.id) \o <<item>>

\* case "ADD_TO_LIBRARY"
AddToLibrary(library, item) == <<item>> \o SelectSeq(library, LAMBDA x : x.id # item.id)

(* ---------- initial state ---------- *)
Init ==
  /\ ai \in BOOLEAN
  /\ renderError = FALSE
  /\ history = <<[tools |-> initialToolStates]>>
  /\ historyIndex = 0
  /\ currentImage = NullImage
  /\ enhancedImage = Null
  /\ isLoading = FALSE
  /\ tools = initialToolStates
  /\ currentPrompt = EmptyPrompt
  /\ userPresets = <<>>
  /\ showBuiltInPresets = FALSE
  /\ batchQueue = <<>>
  /\ enhancedLibrary = <<>>
  /\ calls = {}
  /\ nextId = 0
  /\ nextSingle = 0
  /\ admitted = <<>>

editVars == <<tools, history, historyIndex>>
imageVars == <<currentImage, enhancedImage, isLoading, currentPrompt>>
callVars == <<calls, nextId, nextSingle, admitted>>

(* ---------- edit session ---------- *)
\* the edits the hotkeys u, r, c and b of App make
ToolEdits ==
  { [tool |-> "superResolution", settings |-> [enabled |-> ~tools.superResolution.enabled]],
    [tool |-> "facialRetouch", settings |-> [enabled |-> ~tools.facialRetouch.enabled]],
    [tool |-> "crop", settings |-> [enabled |-> ~tools.crop.enabled]],
    [tool |-> "background", settings |-> [enabled |-> ~tools.background.enabled]] }

\* a reducer case that appends to the history without cutting it at the index
UPDATE_TOOL_APPENDING(payload) ==
  LET newTools == [tools EXCEPT ![payload.tool] = Merge(tools[payload.tool], payload.settings)]
      newHistory == history \o <<[tools |-> newTools]>>
  IN  /\ tools' = newTools
      /\ history' = newHistory
      /\ historyIndex' = Len(newHistory) - 1
      /\ UNCHANGED <<ai, renderError, imageVars, userPresets, showBuiltInPresets, batchQueue, enhancedLibrary, callVars>>

UPDATE_TOOL(payload) ==
  LET newTools == [tools EXCEPT ![payload.tool] = Merge(tools[payload.tool], payload.settings)]
      newHistory == SubSeq(history, 1, historyIndex + 1) \o <<[tools |-> newTools]>>
  IN  /\ tools' = newTools
      /\ history' = newHistory
      /\ historyIndex' = Len(newHistory) - 1
      /\ UNCHANGED <<ai, renderError, imageVars, userPresets, showBuiltInPresets, batchQueue, enhancedLibrary, callVars>>

\* a reducer case that drops the entries behind the index it moves to
UNDO_TRUNCATING ==
  /\ IF historyIndex > 0
     THEN /\ historyIndex' = historyIndex - 1
          /\ tools' = history[(historyIndex - 1) + 1].tools
          /\ history' = SubSeq(history, 1, historyIndex)
     ELSE UNCHANGED <<historyIndex, tools, history>>
  /\ UNCHANGED <<ai, renderError, imageVars, userPresets, showBuiltInPresets, batchQueue, enhancedLibrary, callVars>>

UNDO ==
  /\ IF historyIndex > 0
     THEN /\ historyIndex' = historyIndex - 1
          /\ tools' = history[(historyIndex - 1) + 1].tools
     ELSE UNCHANGED <<historyIndex, tools>>
  /\ UNCHANGED <<ai, renderError, history, imageVars, userPresets, showBuiltInPresets, batchQueue, enhancedLibrary, callVars>>

\* a reducer case that moves the index forward and keeps the live settings
REDO_KEEPING_TOOLS ==
  /\ IF historyIndex < Len(history) - 1
     THEN /\ historyIndex' = historyIndex + 1
          /\ UNCHANGED tools
     ELSE UNCHANGED <<historyIndex, tools>>
  /\ UNCHANGED <<ai, renderError, history, imageVars, userPresets, showBuiltInPresets, batchQueue, enhancedLibrary, callVars>>

REDO ==
  /\ IF historyIndex < Len(history) - 1
     THEN /\ historyIndex' = historyIndex + 1
          /\ tools' = history[(historyIndex + 1) + 1].tools
     ELSE UNCHANGED <<historyIndex, tools>>
  /\ UNCHANGED <<ai, renderError, history, imageVars, userPresets, showBuiltInPresets, batchQueue, enhancedLibrary, callVars>>

\* the fields of the reducer state that UPDATE_TOOL, UNDO and REDO read and write
EditSession == [tools |-> tools, history |-> history, historyIndex |-> historyIndex]

\* case "UPDATE_TOOL", case "UNDO" and case "REDO" as functions of those fields
UpdateTool(s, payload) ==
  LET newTools == [s.tools EXCEPT ![payload.tool] = Merge(s.tools[payload.tool], payload.settings)]
      newHistory == SubSeq(s.history, 1, s.historyIndex + 1) \o <<[tools |-> newTools]>>
  IN  [tools |-> newTools, history |-> newHistory, historyIndex |-> Len(newHistory) - 1]

Undo(s) ==
  IF s.historyIndex > 0
  THEN [s EXCEPT !.historyIndex = s.historyIndex - 1, !.tools = s.history[(s.historyIndex - 1) + 1].tools]
  ELSE s

Redo(s) ==
  IF s.historyIndex < Len(s.history) - 1
  THEN [s EXCEPT !.historyIndex = s.historyIndex + 1, !.tools = s.history[(s.historyIndex + 1) + 1].tools]
  ELSE s

\* a reducer case that replaces the history and keeps the index
SELECT_BATCH_ITEM_KEEPING_INDEX(item) ==
  LET t == IF Has(item, "preset") THEN item.preset ELSE tools
  IN  /\ currentImage' = item.file
      /\ enhancedImage' = IF Has(item, "result") THEN item.result ELSE Null
      /\ tools' = t
      /\ history' = <<[tools |-> t]>>
      /\ UNCHANGED <<ai, renderError, historyIndex, isLoading, currentPrompt, userPresets, showBuiltInPresets,
                     batchQueue, enhancedLibrary, callVars>>

\* a reducer case that records the settings of the item as one more history step
SELECT_BATCH_ITEM_AS_STEP(item) ==
  LET t == IF Has(item, "preset") THEN item.preset ELSE tools
      newHistory == SubSeq(history, 1, historyIndex + 1) \o <<[tools |-> t]>>
  IN  /\ currentImage' = item.file
      /\ enhancedImage' = IF Has(item, "result") THEN item.result ELSE Null
      /\ tools' = t
      /\ history' = newHistory
      /\ historyIndex' = Len(newHistory) - 1
      /\ UNCHANGED <<ai, renderError, isLoading, currentPrompt, userPresets, showBuiltInPresets,
                     batchQueue, enhancedLibrary, callVars>>

\* a click on a queue item or on a library item
SELECT_BATCH_ITEM(item) ==
  LET t == IF Has(item, "preset") THEN item.preset ELSE tools
  IN  /\ currentImage' = item.file
      /\ enhancedImage' = IF Has(item, "result") THEN item.result ELSE Null
      /\ tools' = t
      /\ history' = <<[tools |-> t]>>
      /\ historyIndex' = 0
      /\ UNCHANGED <<ai, renderError, isLoading, currentPrompt, userPresets, showBuiltInPresets, batchQueue, enhancedLibrary, callVars>>

\* a reset that puts the defaults into the live settings and keeps the history
RESET_STATE_KEEPING_HISTORY ==
  /\ currentImage # NullImage
  /\ tools' = initialToolStates
  /\ enhancedImage' = Null
  /\ isLoading' = FALSE
  /\ currentPrompt' = EmptyPrompt
  /\ UNCHANGED <<ai, renderError, history, historyIndex, currentImage, userPresets, showBuiltInPresets,
                 batchQueue, enhancedLibrary, callVars>>

\* a reset that returns initialState with the current image alone carried over
RESET_STATE_TO_INITIAL_STATE ==
  /\ currentImage # NullImage
  /\ history' = <<[tools |-> initialToolStates]>>
  /\ historyIndex' = 0
  /\ tools' = initialToolStates
  /\ enhancedImage' = Null
  /\ isLoading' = FALSE
  /\ currentPrompt' = EmptyPrompt
  /\ userPresets' = <<>>
  /\ showBuiltInPresets' = FALSE
  /\ batchQueue' = <<>>
  /\ enhancedLibrary' = <<>>
  /\ UNCHANGED <<ai, renderError, currentImage, callVars>>

\* the Reset button of Header, disabled while there is no current image
RESET_STATE ==
  /\ currentImage # NullImage
  /\ history' = <<[tools |-> initialToolStates]>>
  /\ historyIndex' = 0
  /\ tools' = initialToolStates
  /\ enhancedImage' = Null
  /\ isLoading' = FALSE
  /\ currentPrompt' = EmptyPrompt
  /\ UNCHANGED <<ai, renderError, currentImage, userPresets, showBuiltInPresets, batchQueue, enhancedLibrary, callVars>>

TOGGLE_BUILTIN_PRESETS ==
  /\ showBuiltInPresets' = ~showBuiltInPresets
  /\ UNCHANGED <<ai, renderError, editVars, imageVars, userPresets, batchQueue, enhancedLibrary, callVars>>

\* availablePresets of PresetsManager: the presets it offers to load
LoadablePresets == userPresets \o (IF showBuiltInPresets THEN BUILT_IN_PRESETS ELSE <<>>)

\* availablePresets.find(p => p.id === id), for an id that is offered
FindPreset(presets, id) == presets[CHOOSE i \in 1..Len(presets) :
                                     /\ presets[i].id = id
                                     /\ \A j \in 1..(i - 1) : presets[j].id # id]

\* a reducer case that puts the preset behind the whole history, the redo
\* branch included
LOAD_PRESET_ON_TOP(preset) ==
  LET newHistory == history \o <<[tools |-> preset.tools]>>
  IN  /\ tools' = preset.tools
      /\ history' = newHistory
      /\ historyIndex' = Len(newHistory) - 1
      /\ UNCHANGED <<ai, renderError, imageVars, userPresets, showBuiltInPresets, batchQueue, enhancedLibrary, callVars>>

\* handleLoad of PresetsManager
LOAD_PRESET(preset) ==
  LET newHistory == SubSeq(history, 1, historyIndex + 1) \o <<[tools |-> preset.tools]>>
  IN  /\ tools' = preset.tools
      /\ history' = newHistory
      /\ historyIndex' = Len(newHistory) - 1
      /\ UNCHANGED <<ai, renderError, imageVars, userPresets, showBuiltInPresets, batchQueue, enhancedLibrary, callVars>>

\* the truthiness tests of the IMPORT_PRESETS filter on a parsed preset
TruthyText(p, k) == Has(p, k) /\ p[k] # ""
TruthyFlag(p, k) == Has(p, k) /\ p[k] = TRUE

\* a forEach that lets an imported preset take the place of the preset with its id
RECURSIVE PushOrReplace(_, _)
PushOrReplace(updatedPresets, incoming) ==
  IF incoming = <<>> THEN updatedPresets
  ELSE PushOrReplace(IF \E i \in 1..Len(updatedPresets) : updatedPresets[i].id = Head(incoming).id
                     THEN [i \in 1..Len(updatedPresets) |->
                             IF updatedPresets[i].id = Head(incoming).id THEN Head(incoming)
                             ELSE updatedPresets[i]]
                     ELSE Append(updatedPresets, Head(incoming)),
                     Tail(incoming))

\* incomingPresets.forEach of IMPORT_PRESETS: a preset is pushed unless a preset
\* with its id is there already
RECURSIVE PushNew(_, _)
PushNew(updatedPresets, incoming) ==
  IF incoming = <<>> THEN updatedPresets
  ELSE PushNew(IF \E i \in 1..Len(updatedPresets) : updatedPresets[i].id = Head(incoming).id
               THEN updatedPresets
               ELSE Append(updatedPresets, Head(incoming)),
               Tail(incoming))

\* case "IMPORT_PRESETS" on a payload that is an array of records
ImportPresets(local, presets) ==
  LET incomingPresets == SelectSeq(presets, LAMBDA p : /\ TruthyText(p, "id")
                                                        /\ TruthyText(p, "name")
                                                        /\ Has(p, "tools")
                                                        /\ ~TruthyFlag(p, "isBuiltIn"))
  IN  PushNew(local, incomingPresets)

\* handleImport of PresetsManager on a file whose text parses to an array
IMPORT_PRESETS(presets) ==
  /\ userPresets' = ImportPresets(userPresets, presets)
  /\ UNCHANGED <<ai, renderError, editVars, imageVars, showBuiltInPresets, batchQueue, enhancedLibrary, callVars>>

\* the View button of a done queue item
SET_ENHANCED_IMAGE(item) ==
  /\ item.status = "done"
  /\ enhancedImage' = item.result
  /\ UNCHANGED <<ai, renderError, editVars, currentImage, isLoading, currentPrompt, userPresets, showBuiltInPresets,
                 batchQueue, enhancedLibrary, callVars>>

(* ---------- upload ---------- *)
IsImageType(type) == type[1] = "image"

\* an upload that drops the oversized images and enqueues the others
processFilesDroppingOversized(files) ==
  LET imageFiles == SelectSeq(files, LAMBDA f : IsImageType(f.type)
                                                /\ f.size <= MAX_IMAGE_UPLOAD_SIZE_BYTES)
      results == [i \in 1..Len(imageFiles) |->
                    [name |-> imageFiles[i].name, type |-> imageFiles[i].type,
                     data |-> DataOf(imageFiles[i].name)]]
      setImage == currentImage = NullImage \/ Len(imageFiles) > 1
  IN  IF Len(imageFiles) = 0
      THEN UNCHANGED vars
      ELSE /\ IF setImage
              THEN /\ currentImage' = results[1]
                   /\ enhancedImage' = Null
                   /\ isLoading' = FALSE
                   /\ history' = <<[tools |-> tools]>>
                   /\ historyIndex' = 0
              ELSE UNCHANGED <<currentImage, enhancedImage, isLoading, history, historyIndex>>
           /\ batchQueue' = AddToBatch(batchQueue, results, tools, nextId)
           /\ nextId' = nextId + Len(imageFiles)
           /\ UNCHANGED <<ai, renderError, tools, currentPrompt, userPresets, showBuiltInPresets, enhancedLibrary,
                          calls, nextSingle, admitted>>

processFiles(files) ==
  LET imageFiles == SelectSeq(files, LAMBDA f : IsImageType(f.type))
      oversized == SelectSeq(imageFiles, LAMBDA f : f.size > MAX_IMAGE_UPLOAD_SIZE_BYTES)
      results == [i \in 1..Len(imageFiles) |->
                    [name |-> imageFiles[i].name, type |-> imageFiles[i].type,
                     data |-> DataOf(imageFiles[i].name)]]
      setImage == currentImage = NullImage \/ Len(imageFiles) > 1
  IN  IF Len(imageFiles) = 0 \/ Len(oversized) > 0
      THEN UNCHANGED vars
      ELSE /\ IF setImage
              THEN /\ currentImage' = results[1]
                   /\ enhancedImage' = Null
                   /\ isLoading' = FALSE
                   /\ history' = <<[tools |-> tools]>>
                   /\ historyIndex' = 0
              ELSE UNCHANGED <<currentImage, enhancedImage, isLoading, history, historyIndex>>
           /\ batchQueue' = AddToBatch(batchQueue, results, tools, nextId)
           /\ nextId' = nextId + Len(imageFiles)
           /\ UNCHANGED <<ai, renderError, tools, currentPrompt, userPresets, showBuiltInPresets, enhancedLibrary,
                          calls, nextSingle, admitted>>

(* ---------- batch queue controls ---------- *)
\* a Cancel button that is rendered for every item
CancelAlwaysAvailable(item) == item.status \in {"pending", "processing", "done", "error", "cancelled"}

\* the Cancel button is rendered for pending and processing items only
CancelAvailable(item) == item.status = "pending" \/ item.status = "processing"

\* the queue after a cancel is requested on its i-th item: without the button
\* nothing is dispatched
CancelResult(queue, i) ==
  IF CancelAvailable(queue[i])
  THEN UpdateBatchItem(queue, [id |-> queue[i].id, status |-> "cancelled"])
  ELSE queue

Cancel(i) ==
  /\ i \in 1..Len(batchQueue)
  /\ batchQueue' = CancelResult(batchQueue, i)
  /\ UNCHANGED <<ai, renderError, editVars, imageVars, userPresets, showBuiltInPresets, enhancedLibrary, callVars>>

\* a reducer case that takes the results of the cleared jobs out of the library too
CLEAR_BATCH_WITH_RESULTS ==
  /\ Len(batchQueue) > 0
  /\ batchQueue' = <<>>
  /\ enhancedLibrary' = SelectSeq(enhancedLibrary,
                                  LAMBDA x : \A i \in 1..Len(batchQueue) : batchQueue[i].id # x.id)
  /\ UNCHANGED <<ai, renderError, editVars, imageVars, userPresets, showBuiltInPresets, callVars>>

CLEAR_BATCH ==
  /\ Len(batchQueue) > 0
  /\ batchQueue' = <<>>
  /\ UNCHANGED <<ai, renderError, editVars, imageVars, userPresets, showBuiltInPresets, enhancedLibrary, callVars>>

\* the presets BatchQueue offers: the current tool settings and the loadable ones
BatchPresets == <<[id |-> "current", name |-> "Current Tool Settings", tools |-> tools]>>
                \o [i \in 1..Len(LoadablePresets) |->
                      [id |-> LoadablePresets[i].id, name |-> LoadablePresets[i].name,
                       tools |-> LoadablePresets[i].tools]]

\* a reducer case that overwrites the snapshot of every item
APPLY_PRESET_TO_EVERY_ITEM(preset) ==
  /\ Len(batchQueue) > 0
  /\ batchQueue' = [i \in 1..Len(batchQueue) |-> Merge(batchQueue[i], [preset |-> preset.tools])]
  /\ UNCHANGED <<ai, renderError, editVars, imageVars, userPresets, showBuiltInPresets, enhancedLibrary, callVars>>

\* handleApplyPreset of BatchQueue, which is rendered while the queue is not empty
APPLY_PRESET_TO_BATCH(preset) ==
  /\ Len(batchQueue) > 0
  /\ batchQueue' = [i \in 1..Len(batchQueue) |->
                      IF batchQueue[i].status = "pending"
                      THEN Merge(batchQueue[i], [preset |-> preset.tools]) ELSE batchQueue[i]]
  /\ UNCHANGED <<ai, renderError, editVars, imageVars, userPresets, showBuiltInPresets, enhancedLibrary, callVars>>

(* ---------- library controls ---------- *)
REMOVE_FROM_LIBRARY(id) ==
  /\ enhancedLibrary' = SelectSeq(enhancedLibrary, LAMBDA x : x.id # id)
  /\ UNCHANGED <<ai, renderError, editVars, imageVars, userPresets, showBuiltInPresets, batchQueue, callVars>>

CLEAR_LIBRARY ==
  /\ Len(enhancedLibrary) > 0
  /\ enhancedLibrary' = <<>>
  /\ UNCHANGED <<ai, renderError, editVars, imageVars, userPresets, showBuiltInPresets, batchQueue, callVars>>

(* ---------- persisted data ---------- *)
\* what localStorage.getItem returns for a key: null, the empty string, a text
\* JSON.parse throws on, the text of an object, the text of an array
StoredAbsent == [shape |-> "absent"]
StoredEmptyText == [shape |-> "empty"]
StoredUnparseable == [shape |-> "unparseable"]
StoredObject == [shape |-> "object"]
StoredArray(items) == [shape |-> "array", items |-> items]

\* a result the library of an earlier session held
StoredResult ==
  [id |-> <<FileA.name, "batch", 0>>,
   file |-> [name |-> FileA.name, type |-> FileA.type, data |-> DataOf(FileA.name)],
   status |-> "done", result |-> EnhancedOf(DataOf(FileA.name)),
   prompt |-> buildPrompt(initialToolStates), preset |-> initialToolStates]

StoredPresetsValues ==
  {StoredAbsent, StoredEmptyText, StoredUnparseable, StoredObject, StoredArray(<<>>),
   StoredArray(<<StoredCrop>>)}
StoredLibraryValues ==
  {StoredAbsent, StoredEmptyText, StoredUnparseable, StoredObject, StoredArray(<<>>),
   StoredArray(<<StoredResult>>)}

\* `if (stored)` of the load effect, JSON.parse returning, Array.prototype
\* methods being there on the parsed value
IsTruthyText(stored) == stored.shape \notin {"absent", "empty"}
Parses(stored) == stored.shape # "unparseable"
IsArray(stored) == stored.shape = "array"

\* case "LOAD_LIBRARY"
LoadLibrary(library) == library

\* the state the first commit leaves: the effects of mount run on it, before
\* any event is handled
AtMount ==
  /\ ~renderError
  /\ tools = initialToolStates /\ history = <<[tools |-> initialToolStates]>> /\ historyIndex = 0
  /\ currentImage = NullImage /\ enhancedImage = Null /\ ~isLoading /\ currentPrompt = EmptyPrompt
  /\ userPresets = <<>> /\ ~showBuiltInPresets /\ batchQueue = <<>> /\ enhancedLibrary = <<>>
  /\ calls = {} /\ nextId = 0 /\ nextSingle = 0 /\ admitted = <<>>

\* the load effect of App and the render its dispatches cause. Inside the
\* try block: IMPORT_PRESETS is dispatched if the stored presets are a
\* non-empty text that parses; a text that does not parse throws to the catch
\* block, which skips the library; LOAD_LIBRARY is dispatched likewise. The
\* reducer runs in the next render, outside the try block: IMPORT_PRESETS
\* calls filter on its payload, and LibraryModal calls map on the library the
\* reducer stored, so a parsed value that is not an array makes the render
\* throw
LoadStored(storedPresets, storedLibrary) ==
  LET presetsDispatched == IsTruthyText(storedPresets) /\ Parses(storedPresets)
      presetsThrew == IsTruthyText(storedPresets) /\ ~Parses(storedPresets)
      libraryDispatched == ~presetsThrew /\ IsTruthyText(storedLibrary) /\ Parses(storedLibrary)
      reducerThrows == presetsDispatched /\ ~IsArray(storedPresets)
      libraryModalThrows == libraryDispatched /\ ~IsArray(storedLibrary)
  IN  /\ AtMount
      /\ IF reducerThrows \/ libraryModalThrows
         THEN /\ renderError' = TRUE
              /\ UNCHANGED <<userPresets, enhancedLibrary>>
         ELSE /\ renderError' = FALSE
              /\ userPresets' = IF presetsDispatched
                                THEN ImportPresets(userPresets, storedPresets.items)
                                ELSE userPresets
              /\ enhancedLibrary' = IF libraryDispatched
                                    THEN LoadLibrary(storedLibrary.items)
                                    ELSE enhancedLibrary
      /\ UNCHANGED <<ai, editVars, imageVars, showBuiltInPresets, batchQueue, callVars>>

(* ---------- enhancement calls ---------- *)
\* buildPrompt returns for the settings t: it reads a field of each of the
\* nine groups, and reading a field of a group that is missing throws
Compiles(t) == ToolNames \subseteq DOMAIN t

\* ToolsPanel renders for the live settings: it reads the enabled flag of each
\* of the nine groups; a render that throws unmounts the application, as
\* there is no error boundary (renderError records that a render threw)
Mounted == ~renderError /\ ToolNames \subseteq DOMAIN tools

TypeErrorMessage == "Cannot read properties of undefined (reading 'enabled')"

\* what enhanceImage resolves with for an image and the tools it was given
EnhanceResult(image, t) == [image |-> EnhancedOf(image.data), prompt |-> buildPrompt(t)]

\* the messages enhanceImage can reject with: without a client only the
\* missing-key error, thrown before anything is sent
FailureMessages == IF ai THEN {NoImageMessage} ELSE {MissingKeyMessage}

\* the messages the call c can reject with: the missing-key error, else the
\* error buildPrompt throws on the settings of the call, else a refusal
RejectionsOf(c) == IF ~ai THEN {MissingKeyMessage}
                   ELSE IF ~Compiles(c.tools) THEN {TypeErrorMessage}
                   ELSE {NoImageMessage}

\* canEnhance of Header: the Enhance button is enabled
canEnhance ==
  LET hasPendingBatch == \E i \in 1..Len(batchQueue) : batchQueue[i].status = "pending"
      isProcessing == isLoading \/ \E i \in 1..Len(batchQueue) : batchQueue[i].status = "processing"
  IN  (currentImage # NullImage \/ hasPendingBatch) /\ ~isProcessing /\ ai

\* handleEnhance up to its await: with a pending batch item it only shows a toast
handleEnhance ==
  /\ canEnhance
  /\ IF \E i \in 1..Len(batchQueue) : batchQueue[i].status = "pending"
     THEN UNCHANGED vars
     ELSE IF currentImage = NullImage
     THEN UNCHANGED vars
     ELSE /\ isLoading' = TRUE
          /\ enhancedImage' = Null
          /\ calls' = calls \cup {[kind |-> "single", image |-> currentImage, tools |-> tools,
                                      serial |-> nextSingle + 1]}
          /\ nextSingle' = nextSingle + 1
          /\ UNCHANGED <<ai, renderError, editVars, currentImage, currentPrompt, userPresets, showBuiltInPresets,
                         batchQueue, enhancedLibrary, nextId, admitted>>

\* handleEnhance after its await resolved
SingleSuccess(c) ==
  LET result == EnhanceResult(c.image, c.tools)
      finishedItem == [id |-> <<c.image.name, "single", c.serial>>, file |-> c.image, status |-> "done",
                       result |-> result.image, prompt |-> result.prompt, preset |-> c.tools]
  IN  /\ c.kind = "single"
      /\ ai
      /\ Compiles(c.tools)
      /\ isLoading' = FALSE
      /\ enhancedImage' = result.image
      /\ currentPrompt' = result.prompt
      /\ enhancedLibrary' = AddToLibrary(enhancedLibrary, finishedItem)
      /\ calls' = calls \ {c}
      /\ UNCHANGED <<ai, renderError, editVars, currentImage, userPresets, showBuiltInPresets, batchQueue,
                     nextId, nextSingle, admitted>>

\* handleEnhance after its await rejected
SingleFailure(c) ==
  /\ c.kind = "single"
  /\ isLoading' = FALSE
  /\ calls' = calls \ {c}
  /\ UNCHANGED <<ai, renderError, editVars, currentImage, enhancedImage, currentPrompt, userPresets, showBuiltInPresets,
                 batchQueue, enhancedLibrary, nextId, nextSingle, admitted>>

(* ---------- batch scheduler ---------- *)
\* a filter that takes failed items for pending ones
PendingOrErrorItems(queue) == SelectSeq(queue, LAMBDA i : i.status = "pending" \/ i.status = "error")

\* a filter that takes cancelled items for pending ones
PendingOrCancelledItems(queue) == SelectSeq(queue, LAMBDA i : i.status = "pending" \/ i.status = "cancelled")

PendingItems(queue) == SelectSeq(queue, LAMBDA i : i.status = "pending")

ProcessingCount(queue) == Len(SelectSeq(queue, LAMBDA i : i.status = "processing"))

\* a selection that ignores the free capacity
ItemsToProcessUncapped(queue) == PendingItems(queue)

\* a selection that takes the newest pending items: pendingItems.slice(-n)
ItemsToProcessNewestFirst(queue) ==
  LET p == PendingItems(queue)
      n == BATCH_CONCURRENCY - ProcessingCount(queue)
  IN  SubSeq(p, IF Len(p) - n + 1 > 1 THEN Len(p) - n + 1 ELSE 1, Len(p))

\* a selection that takes one pending item per run: pendingItems.slice(0, 1)
ItemsToProcessOneAtATime(queue) == Slice0(PendingItems(queue), 1)

\* pendingItems.slice(0, BATCH_CONCURRENCY - processingItems)
ItemsToProcess(queue) == Slice0(PendingItems(queue), BATCH_CONCURRENCY - ProcessingCount(queue))

\* a call that is given the live tools
ToolsLive(item, liveTools) == liveTools

\* item.preset || tools
ToolsFor(item, liveTools) == IF Has(item, "preset") THEN item.preset ELSE liveTools

\* a run that starts the calls and leaves the status of the items as it is
MarkProcessingNowhere(queue, items) == queue

RECURSIVE MarkProcessing(_, _)
MarkProcessing(queue, items) ==
  IF items = <<>> THEN queue
  ELSE MarkProcessing(UpdateBatchItem(queue, [id |-> Head(items).id, status |-> "processing"]),
                      Tail(items))

\* one run of the scheduler effect as a function of the queue it sees: the
\* queue it leaves and the items it starts a call for; the early return
\* leaves the queue as it is and starts nothing
SchedulerRun(queue) ==
  IF ProcessingCount(queue) >= BATCH_CONCURRENCY \/ Len(PendingItems(queue)) = 0
  THEN [queue |-> queue, started |-> <<>>]
  ELSE [queue |-> MarkProcessing(queue, ItemsToProcess(queue)), started |-> ItemsToProcess(queue)]

\* one run of the scheduler effect of App: every selected item is marked
\* processing and its enhanceImage call is started; each call keeps the item
\* as the effect saw it
Tick ==
  LET items == ItemsToProcess(batchQueue)
  IN  /\ ~(ProcessingCount(batchQueue) >= BATCH_CONCURRENCY \/ Len(PendingItems(batchQueue)) = 0)
      /\ batchQueue' = MarkProcessing(batchQueue, items)
      /\ calls' = calls \cup {[kind |-> "batch", item |-> items[i], tools |-> ToolsFor(items[i], tools)]
                                : i \in 1..Len(items)}
      /\ admitted' = admitted \o [i \in 1..Len(items) |-> items[i].id]
      /\ UNCHANGED <<ai, renderError, editVars, imageVars, userPresets, showBuiltInPresets, enhancedLibrary, nextId, nextSingle>>

\* the call of a batch item resolved
BatchSuccess(c) ==
  LET result == EnhanceResult(c.item.file, c.tools)
      finishedItem == Merge(c.item, [status |-> "done", result |-> result.image, prompt |-> result.prompt])
  IN  /\ c.kind = "batch"
      /\ ai
      /\ Compiles(c.tools)
      /\ calls' = calls \ {c}
      /\ batchQueue' = UpdateBatchItem(batchQueue, finishedItem)
      /\ enhancedLibrary' = AddToLibrary(enhancedLibrary, finishedItem)
      /\ UNCHANGED <<ai, renderError, editVars, imageVars, userPresets, showBuiltInPresets, nextId, nextSingle, admitted>>

\* a catch block that also takes the waiting jobs out of the queue's work
BatchFailureHaltsQueue(c, msg) ==
  /\ c.kind = "batch"
  /\ batchQueue' = [i \in 1..Len(batchQueue) |->
                      IF batchQueue[i].id = c.item.id
                      THEN Merge(batchQueue[i], [id |-> c.item.id, status |-> "error", error |-> msg])
                      ELSE IF batchQueue[i].status = "pending"
                      THEN Merge(batchQueue[i], [status |-> "cancelled"])
                      ELSE batchQueue[i]]
  /\ calls' = calls \ {c}
  /\ UNCHANGED <<ai, renderError, editVars, imageVars, userPresets, showBuiltInPresets, enhancedLibrary, nextId, nextSingle, admitted>>

\* a catch block that drops the error and leaves the job as it is
BatchFailureSwallowed(c, msg) ==
  /\ c.kind = "batch"
  /\ calls' = calls \ {c}
  /\ UNCHANGED <<ai, renderError, editVars, imageVars, userPresets, showBuiltInPresets, batchQueue,
                 enhancedLibrary, nextId, nextSingle, admitted>>

\* the call of a batch item rejected
BatchFailure(c, msg) ==
  /\ c.kind = "batch"
  /\ batchQueue' = UpdateBatchItem(batchQueue, [id |-> c.item.id, status |-> "error", error |-> msg])
  /\ calls' = calls \ {c}
  /\ UNCHANGED <<ai, renderError, editVars, imageVars, userPresets, showBuiltInPresets, enhancedLibrary, nextId, nextSingle, admitted>>

(* ---------- specification ---------- *)
\* the bounds of a specification: jobs ever enqueued, single-image
\* enhancements ever started, entries of the history
JobsLeft(files, max) == nextId + Len(files) <= max
SingleLeft(max) == nextSingle < max
HistoryLeft(max) == historyIndex + 2 <= max

\* no rejection is waiting for its catch block: without a client, or with
\* settings buildPrompt throws on, enhanceImage throws before its first await,
\* and the catch block of the caller runs as a microtask, before any other
\* event is handled
Idle == \A c \in calls : ai /\ Compiles(c.tools)

\* the inputs the specifications draw: the presets applied to the queue, the
\* tools edited by hotkey, the presets loaded
AppliedPresets == {"current", "builtin_studio"}
EditedTools == {"crop"}
LoadedPresets == {"builtin_studio"}

\* the batch scheduler and the controls of the queue
Next ==
  \/ \E files \in Selections : Idle /\ JobsLeft(files, MaxJobs) /\ processFiles(files)
  \/ \E i \in 1..Len(batchQueue) : Idle /\ Cancel(i)
  \/ Idle /\ CLEAR_BATCH
  \/ Idle /\ Tick
  \/ \E c \in calls : BatchSuccess(c)
  \/ \E c \in calls : \E msg \in FailureMessages : BatchFailure(c, msg)

Spec == Init /\ [][Next]_vars

\* the scheduler under the scheduling the runtime gives: the scheduler effect
\* runs after every commit that changed batchQueue, and every enhanceImage
\* call settles (the promise resolves or rejects)
SchedulerRuns == Idle /\ Tick
CallSettles ==
  \E c \in calls : (\E msg \in FailureMessages : BatchFailure(c, msg)) \/ BatchSuccess(c)

\* the selections that are accepted: one image, two images
ImageSelections == { <<FileA>>, <<FileA, FileB>> }

NextFair ==
  \/ \E files \in ImageSelections : Idle /\ JobsLeft(files, MaxFairJobs) /\ processFiles(files)
  \/ \E i \in 1..Len(batchQueue) : Idle /\ Cancel(i)
  \/ Idle /\ CLEAR_BATCH
  \/ Idle /\ Tick
  \/ \E c \in calls : BatchSuccess(c)
  \/ \E c \in calls : \E msg \in FailureMessages : BatchFailure(c, msg)

SpecFair == Init /\ [][NextFair]_vars /\ WF_vars(SchedulerRuns) /\ WF_vars(CallSettles)

\* the batch scheduler, the controls of the queue and the presets applied to it
NextPresets ==
  \/ \E files \in Selections : Idle /\ JobsLeft(files, MaxPresetJobs) /\ processFiles(files)
  \/ \E i \in 1..Len(batchQueue) : Idle /\ Cancel(i)
  \/ Idle /\ CLEAR_BATCH
  \/ Idle /\ TOGGLE_BUILTIN_PRESETS
  \/ \E i \in 1..Len(BatchPresets) : Idle /\
        BatchPresets[i].id \in AppliedPresets /\ APPLY_PRESET_TO_BATCH(BatchPresets[i])
  \/ Idle /\ Tick
  \/ \E c \in calls : BatchSuccess(c)
  \/ \E c \in calls : \E msg \in FailureMessages : BatchFailure(c, msg)

SpecPresets == Init /\ [][NextPresets]_vars

\* an edit session next to the queue: edits and undo by hotkey, uploads, the
\* controls of the queue and the scheduler
NextSession ==
  \/ \E payload \in ToolEdits : Idle /\
        payload.tool \in EditedTools /\ HistoryLeft(MaxSessionHistory) /\ UPDATE_TOOL(payload)
  \/ Idle /\ UNDO
  \/ \E files \in Selections : Idle /\ JobsLeft(files, MaxSessionJobs) /\ processFiles(files)
  \/ \E i \in 1..Len(batchQueue) : Idle /\ Cancel(i)
  \/ Idle /\ CLEAR_BATCH
  \/ \E i \in 1..Len(BatchPresets) : Idle /\
        BatchPresets[i].id \in AppliedPresets /\ APPLY_PRESET_TO_BATCH(BatchPresets[i])
  \/ Idle /\ Tick
  \/ \E c \in calls : BatchSuccess(c)
  \/ \E c \in calls : \E msg \in FailureMessages : BatchFailure(c, msg)

SpecSession == Init /\ [][NextSession]_vars

\* the edit session next to a queue of jobs
NextEdit ==
  \/ \E payload \in ToolEdits : Idle /\
        payload.tool \in EditedTools /\ HistoryLeft(MaxHistory) /\ UPDATE_TOOL(payload)
  \/ Idle /\ UNDO
  \/ Idle /\ REDO
  \/ Idle /\ TOGGLE_BUILTIN_PRESETS
  \/ \E i \in 1..Len(LoadablePresets) : Idle /\
        LoadablePresets[i].id \in LoadedPresets /\ HistoryLeft(MaxHistory) /\ LOAD_PRESET(LoadablePresets[i])
  \/ \E i \in 1..Len(batchQueue) : Idle /\ SELECT_BATCH_ITEM(batchQueue[i])
  \/ Idle /\ RESET_STATE
  \/ \E files \in Selections : Idle /\ JobsLeft(files, MaxEditJobs) /\ processFiles(files)
  \/ Idle /\ Tick
  \/ \E c \in calls : BatchSuccess(c)
  \/ \E c \in calls : \E msg \in FailureMessages : BatchFailure(c, msg)

SpecEdit == Init /\ [][NextEdit]_vars

\* the hotkeys of App: u, r, c and b edit a tool, z and Z undo and redo,
\* whatever the index is
NextHotkeys ==
  \/ \E payload \in ToolEdits : Idle /\ HistoryLeft(MaxHotkeyHistory) /\ UPDATE_TOOL(payload)
  \/ Idle /\ UNDO
  \/ Idle /\ REDO

SpecHotkeys == Init /\ [][NextHotkeys]_vars

\* the batch scheduler together with the single-image enhancement
NextEnhance ==
  \/ \E files \in Selections : Idle /\ JobsLeft(files, MaxEnhanceJobs) /\ processFiles(files)
  \/ \E i \in 1..Len(batchQueue) : Idle /\ Cancel(i)
  \/ Idle /\ CLEAR_BATCH
  \/ Idle /\ Tick
  \/ \E c \in calls : BatchSuccess(c)
  \/ \E c \in calls : \E msg \in FailureMessages : BatchFailure(c, msg)
  \/ Idle /\ SingleLeft(MaxSingle) /\ handleEnhance
  \/ \E c \in calls : SingleSuccess(c)
  \/ \E c \in calls : SingleFailure(c)

SpecEnhance == Init /\ [][NextEnhance]_vars

\* the imported presets next to the edit session and the queue of jobs
NextStore ==
  \/ \E presets \in PresetFiles : Idle /\ Mounted /\ IMPORT_PRESETS(presets)
  \/ \E i \in 1..Len(LoadablePresets) : Idle /\ Mounted /\
        HistoryLeft(MaxStoreHistory) /\ LOAD_PRESET(FindPreset(LoadablePresets, LoadablePresets[i].id))
  \/ \E i \in 1..Len(BatchPresets) : Idle /\ Mounted /\
        APPLY_PRESET_TO_BATCH(FindPreset(BatchPresets, BatchPresets[i].id))
  \/ \E files \in Selections : Idle /\ Mounted /\ JobsLeft(files, MaxStoreJobs) /\ processFiles(files)
  \/ Idle /\ Mounted /\ Tick
  \/ \E c \in calls : Mounted /\ BatchSuccess(c)
  \/ \E c \in calls : \E msg \in RejectionsOf(c) : Mounted /\ BatchFailure(c, msg)

SpecStore == Init /\ [][NextStore]_vars

\* the compiler on the settings of the tools panel: an image is loaded, the
\* queue is empty, and the image is enhanced with the live settings
InitCompile ==
  /\ ai \in BOOLEAN
  /\ renderError = FALSE
  /\ tools \in ToolSettings
  /\ history = <<[tools |-> tools]>>
  /\ historyIndex = 0
  /\ currentImage = [name |-> FileA.name, type |-> FileA.type, data |-> DataOf(FileA.name)]
  /\ enhancedImage = Null
  /\ isLoading = FALSE
  /\ currentPrompt = EmptyPrompt
  /\ userPresets = <<>>
  /\ showBuiltInPresets = FALSE
  /\ batchQueue = <<>>
  /\ enhancedLibrary = <<>>
  /\ calls = {}
  /\ nextId = 1
  /\ nextSingle = 0
  /\ admitted = <<>>

NextCompile ==
  \/ Idle /\ SingleLeft(MaxCompileSingle) /\ handleEnhance
  \/ \E c \in calls : SingleSuccess(c)
  \/ \E c \in calls : SingleFailure(c)

SpecCompile == InitCompile /\ [][NextCompile]_vars

\* the library: results of the queue and of single enhancements are added,
\* entries are deleted one by one or all at once in the library dialog
NextLibrary ==
  \/ \E files \in Selections : Idle /\ JobsLeft(files, MaxLibraryJobs) /\ processFiles(files)
  \/ Idle /\ Tick
  \/ \E c \in calls : BatchSuccess(c)
  \/ \E c \in calls : \E msg \in FailureMessages : BatchFailure(c, msg)
  \/ Idle /\ SingleLeft(MaxLibrarySingle) /\ handleEnhance
  \/ \E c \in calls : SingleSuccess(c)
  \/ \E c \in calls : SingleFailure(c)
  \/ \E i \in 1..Len(enhancedLibrary) : Idle /\ REMOVE_FROM_LIBRARY(enhancedLibrary[i].id)
  \/ Idle /\ CLEAR_LIBRARY

SpecLibrary == Init /\ [][NextLibrary]_vars

\* the start of a session on the data an earlier session left in localStorage:
\* the load effect, then imports, the library dialog, uploads and the scheduler
NextStartup ==
  \/ \E storedPresets \in StoredPresetsValues : \E storedLibrary \in StoredLibraryValues :
        LoadStored(storedPresets, storedLibrary)
  \/ \E presets \in PresetFiles : Idle /\ Mounted /\ IMPORT_PRESETS(presets)
  \/ \E i \in 1..Len(enhancedLibrary) : Idle /\ Mounted /\ SELECT_BATCH_ITEM(enhancedLibrary[i])
  \/ \E i \in 1..Len(enhancedLibrary) : Idle /\ Mounted /\ REMOVE_FROM_LIBRARY(enhancedLibrary[i].id)
  \/ Idle /\ Mounted /\ CLEAR_LIBRARY
  \/ \E files \in Selections : Idle /\ Mounted /\ JobsLeft(files, MaxStartupJobs) /\ processFiles(files)
  \/ Idle /\ Mounted /\ Tick
  \/ \E c \in calls : Mounted /\ BatchSuccess(c)
  \/ \E c \in calls : \E msg \in FailureMessages : Mounted /\ BatchFailure(c, msg)

SpecStartup == Init /\ [][NextStartup]_vars

\* the image on screen switched while a single-image enhancement is in
\* flight: uploads (one image; two, the other image first), clicks on queue
\* items, the Reset button, the scheduler
SwitchSelections == { <<FileA>>, <<FileB, FileA>> }

NextSwitch ==
  \/ \E files \in SwitchSelections : Idle /\ JobsLeft(files, MaxSwitchJobs) /\ processFiles(files)
  \/ \E i \in 1..Len(batchQueue) : Idle /\ SELECT_BATCH_ITEM(batchQueue[i])
  \/ Idle /\ RESET_STATE
  \/ Idle /\ Tick
  \/ \E c \in calls : BatchSuccess(c)
  \/ \E c \in calls : \E msg \in FailureMessages : BatchFailure(c, msg)
  \/ Idle /\ SingleLeft(MaxSwitchSingle) /\ handleEnhance
  \/ \E c \in calls : SingleSuccess(c)
  \/ \E c \in calls : SingleFailure(c)

SpecSwitch == Init /\ [][NextSwitch]_vars

(* ---------- properties ---------- *)
Range(s) == {s[i] : i \in 1..Len(s)}
InLibrary(library, id) == \E i \in 1..Len(library) : library[i].id = id
StatusCount(st) == Cardinality({i \in 1..Len(batchQueue) : batchQueue[i].status = st})
FilledFields(item) == (DOMAIN item) \cap {"result", "prompt", "error"}

\* C1: in every reachable state the number of queue jobs whose status is
\* 'processing' is at most BATCH_CONCURRENCY.
C1_ProcessingWithinCap == ProcessingCount(batchQueue) <= BATCH_CONCURRENCY

\* the cap is reached while a job waits
C1_Witness ==
  /\ ProcessingCount(batchQueue) = BATCH_CONCURRENCY
  /\ StatusCount("pending") > 0

\* C2: with a client configured, the number of enhanceImage calls that have
\* been started and have not returned is at most BATCH_CONCURRENCY.
C2_OutstandingCallsWithinCap == ai => Cardinality(calls) <= BATCH_CONCURRENCY

\* C3: once a job is cancelled, no step changes its status or fills its
\* result, prompt or error field, as long as it is in the queue.
C3_CancellationFinal ==
  [][\A i \in 1..Len(batchQueue) : \A j \in 1..Len(batchQueue') :
        (batchQueue[i].status = "cancelled" /\ batchQueue'[j].id = batchQueue[i].id)
        => /\ batchQueue'[j].status = "cancelled"
           /\ FilledFields(batchQueue'[j]) = FilledFields(batchQueue[i])]_vars

\* C4: no step adds to the library an entry with the id of a job that is
\* cancelled.
C4_CancelledNeverInLibrary ==
  [][\A i \in 1..Len(batchQueue) :
        (batchQueue[i].status = "cancelled" /\ ~InLibrary(enhancedLibrary, batchQueue[i].id))
        => ~InLibrary(enhancedLibrary', batchQueue[i].id)]_vars

\* C5: once a job is done or failed, no step (cancel, applied preset,
\* admission, completion of any call) changes it, as long as it is in the
\* queue, and a cancel requested on it leaves the whole queue as it is.
C5_DoneAndErrorFinal ==
  [][\A i \in 1..Len(batchQueue) :
        batchQueue[i].status \in {"done", "error"}
        => /\ CancelResult(batchQueue, i) = batchQueue
           /\ \A j \in 1..Len(batchQueue') :
                batchQueue'[j].id = batchQueue[i].id => batchQueue'[j] = batchQueue[i]]_vars

\* a finished job next to a job whose snapshot was overwritten by a preset
C5_Witness ==
  \E i, j \in 1..Len(batchQueue) :
    /\ batchQueue[i].status \in {"done", "error"}
    /\ batchQueue[j].status = "cancelled"
    /\ batchQueue[j].preset # batchQueue[i].preset

\* C6: no job is dispatched twice: the ids the scheduler has started a call
\* for are pairwise different, whatever happened to the jobs in between.
C6_AdmittedAtMostOnce ==
  \A a, b \in 1..Len(admitted) : a # b => admitted[a] # admitted[b]

\* a job failed and stayed failed while the jobs behind it were admitted
C6_Witness ==
  /\ Len(admitted) >= 3
  /\ StatusCount("error") > 0
  /\ Cardinality(calls) > 0

\* C7: when a job goes from pending to processing no job before it in the
\* queue is left pending, and jobs are started in the order they were enqueued.
C7_FIFOAdmission ==
  [][/\ \A j \in 1..Len(batchQueue) :
          (/\ j <= Len(batchQueue')
           /\ batchQueue'[j].id = batchQueue[j].id
           /\ batchQueue[j].status = "pending"
           /\ batchQueue'[j].status = "processing")
          => \A i \in 1..(j - 1) : batchQueue'[i].status # "pending"
     /\ \A a, b \in 1..Len(admitted') : a < b => admitted'[a][3] < admitted'[b][3]]_vars

\* the third job was admitted after the first one had finished
C7_Witness ==
  /\ Len(batchQueue) >= 3
  /\ batchQueue[1].status = "done"
  /\ batchQueue[2].status = "processing"
  /\ batchQueue[3].status = "processing"

\* C8: a job cancelled before it was admitted is never admitted afterwards:
\* no call is started for it and it stays cancelled.
C8_CancelledPendingNeverStarts ==
  [][\A i \in 1..Len(batchQueue) :
        (batchQueue[i].status = "cancelled" /\ batchQueue[i].id \notin Range(admitted))
        => /\ batchQueue[i].id \notin Range(admitted')
           /\ \A c \in calls' : c.kind = "batch" => c.item.id # batchQueue[i].id
           /\ \A j \in 1..Len(batchQueue') :
                batchQueue'[j].id = batchQueue[i].id => batchQueue'[j].status = "cancelled"]_vars

\* a job was cancelled while it waited and a job behind it was admitted
C8_Witness ==
  \E i \in 1..Len(batchQueue) :
    /\ batchQueue[i].status = "cancelled"
    /\ batchQueue[i].id \notin Range(admitted)
    /\ \E a \in 1..Len(admitted) : admitted[a][3] > batchQueue[i].id[3]

\* C9: without a client (ai = null) no job is admitted to processing and no
\* job ends in the error status.
C9_MissingClientRejected ==
  ~ai => \A i \in 1..Len(batchQueue) : batchQueue[i].status \notin {"processing", "error"}

\* C10: a step that edits the live settings or the history leaves every queued
\* job and its snapshot in place, every call is given the snapshot of its job,
\* and the prompt recorded on a job is the one compiled from its snapshot.
C10_SnapshotIsolation ==
  [][/\ (tools' # tools \/ history' # history \/ historyIndex' # historyIndex)
        => \A i \in 1..Len(batchQueue) :
             /\ i <= Len(batchQueue')
             /\ batchQueue'[i].id = batchQueue[i].id
             /\ batchQueue'[i].preset = batchQueue[i].preset
     /\ \A c \in calls' : c.kind = "batch" => c.tools = c.item.preset
     /\ \A i \in 1..Len(batchQueue') :
          Has(batchQueue'[i], "prompt") => batchQueue'[i].prompt = buildPrompt(batchQueue'[i].preset)]_vars

\* a job is done with the prompt of its snapshot while the live settings,
\* edited since, compile to another prompt
C10_Witness ==
  \E i \in 1..Len(batchQueue) :
    /\ batchQueue[i].status = "done"
    /\ batchQueue[i].preset # tools
    /\ batchQueue[i].prompt # buildPrompt(tools)

\* C11: APPLY_PRESET_TO_BATCH sets the snapshot of every pending job to the
\* given settings and leaves every processing, done, failed or cancelled job
\* as it is; no job changes its status, id, image or position in the queue.
C11_ApplyPresetFrame ==
  [][\A k \in 1..Len(BatchPresets) :
        APPLY_PRESET_TO_BATCH(BatchPresets[k])
        => /\ Len(batchQueue') = Len(batchQueue)
           /\ \A i \in 1..Len(batchQueue) :
                IF batchQueue[i].status = "pending"
                THEN /\ batchQueue'[i].preset = BatchPresets[k].tools
                     /\ DOMAIN batchQueue'[i] = DOMAIN batchQueue[i]
                     /\ \A f \in (DOMAIN batchQueue[i]) \ {"preset"} :
                          batchQueue'[i][f] = batchQueue[i][f]
                ELSE batchQueue'[i] = batchQueue[i]]_vars

\* a preset was applied while one job waited and another had been admitted:
\* the waiting job holds the preset, the other job its first snapshot
C11_Witness ==
  \E i, j \in 1..Len(batchQueue) :
    /\ batchQueue[i].status = "pending"
    /\ batchQueue[i].preset = BUILT_IN_PRESETS[2].tools
    /\ batchQueue[j].status \in {"processing", "done", "error", "cancelled"}
    /\ batchQueue[j].preset = initialToolStates
    /\ tools = initialToolStates

\* C13: in every reachable state the history is not empty and the index
\* addresses one of its entries: 0 <= historyIndex < history.length.
C13_HistoryIndexValid ==
  /\ Len(history) >= 1
  /\ 0 <= historyIndex
  /\ historyIndex < Len(history)

\* an undo has left the index before the last entry, next to a loaded image
C13_Witness ==
  /\ Len(history) = 2
  /\ historyIndex = 0
  /\ currentImage # NullImage

\* k undos and k redos in a row
RECURSIVE Undos(_, _)
Undos(s, k) == IF k = 0 THEN s ELSE Undos(Undo(s), k - 1)
RECURSIVE Redos(_, _)
Redos(s, k) == IF k = 0 THEN s ELSE Redos(Redo(s), k - 1)

\* C14: after any number of recorded edits, k undos (k at most the number of
\* edits recorded, hence at most the index) followed by k redos give back
\* the live settings, the history entries and the index held before the undos;
\* the UNDO and REDO steps of the program are the functions Undo and Redo.
C14_UndoRedoRoundTrip ==
  [][/\ UNDO => EditSession' = Undo(EditSession)
     /\ REDO => EditSession' = Redo(EditSession)
     /\ \A k \in 0..historyIndex' : Redos(Undos(EditSession', k), k) = EditSession']_vars

\* an edit is recorded, and undoing it changes the live settings
C14_Witness ==
  /\ historyIndex >= 1
  /\ Undos(EditSession, historyIndex).tools # tools
  /\ Redos(Undos(EditSession, historyIndex), historyIndex) = EditSession

\* the edit sessions that undo and redo steps lead to from s
RECURSIVE UndoRedoClosure(_)
UndoRedoClosure(S) ==
  LET N == S \cup {Undo(x) : x \in S} \cup {Redo(x) : x \in S}
  IN  IF N = S THEN S ELSE UndoRedoClosure(N)

\* C15: UPDATE_TOOL at index i keeps the entries up to i, drops every entry
\* after i, appends the new settings and moves the index to the new last
\* entry; after it a redo changes nothing, the live settings are the recorded
\* ones, and no sequence of undos and redos brings a dropped entry back.
C15_RecordTruncates ==
  [][\A payload \in ToolEdits :
        UPDATE_TOOL(payload)
        => /\ EditSession' = UpdateTool(EditSession, payload)
           /\ history' = SubSeq(history, 1, historyIndex + 1) \o <<[tools |-> tools']>>
           /\ historyIndex' = Len(history') - 1
           /\ historyIndex' = historyIndex + 1
           /\ tools'[payload.tool].enabled = payload.settings.enabled
           /\ Redo(EditSession') = EditSession'
           /\ \A x \in UndoRedoClosure({EditSession'}) :
                /\ x.history = history'
                /\ x.historyIndex \in 0..(historyIndex + 1)
                /\ x.tools = history'[x.historyIndex + 1].tools]_vars

\* after an undo a redo branch exists, and recording an edit there drops it:
\* the history is cut to the index and a redo no longer changes anything
C15_Witness ==
  /\ historyIndex < Len(history) - 1
  /\ Redo(EditSession) # EditSession
  /\ \E payload \in ToolEdits :
       LET s == UpdateTool(EditSession, payload)
       IN  /\ Len(s.history) = historyIndex + 2
           /\ s.history[Len(s.history)].tools # history[historyIndex + 2].tools
           /\ Redo(s) = s

\* C16: a step that sets the source image (SET_IMAGE, dispatched by
\* processFiles) or loads a job (SELECT_BATCH_ITEM) leaves a history of exactly
\* one entry, the settings live after the step, at index 0, so that undo and
\* redo change nothing right after it.
C16_HistoryReset ==
  [][((\E i \in 1..Len(batchQueue) : SELECT_BATCH_ITEM(batchQueue[i]))
      \/ (\E files \in Selections :
            /\ processFiles(files)
            /\ batchQueue' # batchQueue
            /\ (currentImage = NullImage
                \/ Len(SelectSeq(files, LAMBDA f : IsImageType(f.type))) > 1)))
     => /\ history' = <<[tools |-> tools']>>
        /\ historyIndex' = 0
        /\ Undo(EditSession') = EditSession'
        /\ Redo(EditSession') = EditSession']_vars

\* the history was replaced after an edit: one entry is left although the
\* live settings are not the initial ones
C16_Witness ==
  /\ currentImage # NullImage
  /\ Len(history) = 1
  /\ historyIndex = 0
  /\ tools # initialToolStates
  /\ history[1].tools = tools

\* the operations of a compiled instruction, between its header and its closing clauses
NumberedOps(p) == SubSeq(p, 2, Len(p) - 1)

\* the canonical order of the tool groups and the text each group's clause starts with
CanonicalOrder == <<"superResolution", "colorTone", "facialRetouch", "preserveDetails", "hairStyling",
                    "background", "crop", "distractions", "noiseAndOptics">>
ClauseHeads == <<Lit("SUPER RESOLUTION: Perform a high-quality"), Lit("COLOR & EXPOSURE: WB"),
                 Lit("FACIAL RETOUCH (SUBTLE): intensity"), Lit("PRESERVE DETAILS ("),
                 Lit("HAIR STYLING: mode:"), Lit("BACKGROUND: mode:"), Lit("CROP/ROTATE: aspect"),
                 Lit("OBJECT REMOVAL: remove the following distractions:"),
                 Lit("NOISE & OPTICS CORRECTION:")>>

\* the place in the canonical order of the group a numbered operation belongs to, 0 for none
Rank(op) == IF \E r \in 1..Len(ClauseHeads) : op[3] = ClauseHeads[r]
            THEN CHOOSE r \in 1..Len(ClauseHeads) : op[3] = ClauseHeads[r]
            ELSE 0

InCanonicalOrder(p) ==
  LET ops == NumberedOps(p)
  IN  \A i \in 1..Len(ops) :
        /\ ops[i][1] = Num(i)
        /\ ops[i][2] = Lit(")")
        /\ Rank(ops[i]) \in 1..Len(CanonicalOrder)
        /\ i > 1 => Rank(ops[i - 1]) < Rank(ops[i])

\* C17: the operations of every compiled instruction (the one the live
\* settings compile to, the one recorded for the current image, the ones kept
\* in the library) are numbered 1..k without a gap and follow the canonical
\* order of the tool groups; the instruction depends on the settings only.
C17_CanonicalOrder ==
  /\ InCanonicalOrder(buildPrompt(tools))
  /\ currentPrompt # EmptyPrompt => InCanonicalOrder(currentPrompt) /\ currentPrompt = buildPrompt(tools)
  /\ \A i \in 1..Len(enhancedLibrary) :
       /\ InCanonicalOrder(enhancedLibrary[i].prompt)
       /\ enhancedLibrary[i].prompt = buildPrompt(enhancedLibrary[i].preset)

\* an image was enhanced with all nine tools contributing
C17_Witness ==
  /\ currentPrompt # EmptyPrompt
  /\ Len(NumberedOps(currentPrompt)) = 9
  /\ NumberedOps(currentPrompt)[9][1] = Num(9)
  /\ Rank(NumberedOps(currentPrompt)[9]) = 9

\* the group g has a clause among the operations of the instruction p
Contributes(p, g) ==
  \E i \in 1..Len(NumberedOps(p)) :
    /\ Rank(NumberedOps(p)[i]) # 0
    /\ CanonicalOrder[Rank(NumberedOps(p)[i])] = g

\* the group g of the settings t is in its no-op mode
NoOpMode(t, g) ==
  \/ g = "hairStyling" /\ t.hairStyling.mode = "keep"
  \/ g = "background" /\ t.background.mode = "keep"

\* C18: a tool group has a clause in the compiled instruction if and only if
\* it is enabled and not in its no-op mode (hair 'keep', background 'keep').
C18_ClauseIffEnabledAndEffective ==
  \A g \in ToolNames :
    Contributes(buildPrompt(tools), g) <=> (tools[g].enabled /\ ~NoOpMode(tools, g))

\* the settings t and u differ at most in fields, other than the enabled
\* flag, of groups that are disabled in both
DifferInDisabledOnly(t, u) ==
  \A g \in ToolNames :
    \/ t[g] = u[g]
    \/ ~t[g].enabled /\ ~u[g].enabled

\* the settings t with the detail fields of its disabled groups in D taken from p
WithDetails(t, D, p) ==
  [g \in DOMAIN t |-> IF g \in D /\ ~t[g].enabled THEN Merge(p[g], [enabled |-> FALSE]) ELSE t[g]]

\* C19: two settings that differ only in fields, other than the enabled flag,
\* of tool groups disabled in both compile to the same instruction.
C19_DisabledFieldsIgnored ==
  \A p \in DetailProfiles : \A D \in SUBSET {g \in ToolNames : ~tools[g].enabled} :
    /\ DifferInDisabledOnly(tools, WithDetails(tools, D, p))
    /\ buildPrompt(WithDetails(tools, D, p)) = buildPrompt(tools)

\* crop and the background are off, their detail fields could be others, and
\* an image was enhanced with the instruction compiled from the live settings
C19_Witness ==
  /\ ~tools.crop.enabled
  /\ ~tools.background.enabled
  /\ tools.superResolution.enabled
  /\ WithDetails(tools, {"crop", "background"}, DetailsMoved) # tools
  /\ currentPrompt = buildPrompt(WithDetails(tools, {"crop", "background"}, DetailsMoved))

\* the image files of a selection, and whether processFiles accepts the selection
ImagesOf(files) == SelectSeq(files, LAMBDA f : IsImageType(f.type))
Accepted(files) ==
  /\ Len(ImagesOf(files)) > 0
  /\ \A i \in 1..Len(ImagesOf(files)) : ImagesOf(files)[i].size <= MAX_IMAGE_UPLOAD_SIZE_BYTES

\* C12: ADD_TO_BATCH, dispatched by processFiles with the images it read,
\* appends one job per image to the end of the queue, in the order given, each
\* pending, with a snapshot equal to the settings live at that moment and an
\* id no job has, and leaves the jobs queued before as and where they are.
C12_EnqueueAppends ==
  [][\A files \in Selections :
        (processFiles(files) /\ Accepted(files))
        => /\ Len(batchQueue') = Len(batchQueue) + Len(ImagesOf(files))
           /\ \A i \in 1..Len(batchQueue) : batchQueue'[i] = batchQueue[i]
           /\ \A k \in 1..Len(ImagesOf(files)) :
                LET job == batchQueue'[Len(batchQueue) + k]
                IN  /\ DOMAIN job = {"id", "file", "status", "preset"}
                    /\ job.file = [name |-> ImagesOf(files)[k].name, type |-> ImagesOf(files)[k].type,
                                    data |-> DataOf(ImagesOf(files)[k].name)]
                    /\ job.status = "pending"
                    /\ job.preset = tools
                    /\ \A j \in 1..Len(batchQueue') : j # Len(batchQueue) + k => batchQueue'[j].id # job.id
           /\ tools' = tools]_vars

\* a job was enqueued behind a finished one after a preset was loaded: its
\* snapshot is the live settings, the snapshot of the finished job is another
C12_Witness ==
  /\ Len(batchQueue) = 2
  /\ batchQueue[1].status = "done"
  /\ batchQueue[2].status = "pending"
  /\ batchQueue[2].preset = tools
  /\ tools = StoredCrop.tools
  /\ batchQueue[1].preset # tools

\* the settings value t has all nine tool groups
FullyPopulated(t) == ToolNames \subseteq DOMAIN t

\* C20: every settings value in the state (the live settings, the entries of
\* the history, the snapshots of the jobs and of the library items) has all
\* nine tool groups, so that buildPrompt returns on it.
C20_SettingsFullyPopulated ==
  /\ FullyPopulated(tools)
  /\ \A i \in 1..Len(history) : FullyPopulated(history[i].tools)
  /\ \A i \in 1..Len(batchQueue) : Has(batchQueue[i], "preset") => FullyPopulated(batchQueue[i].preset)
  /\ \A i \in 1..Len(enhancedLibrary) :
       Has(enhancedLibrary[i], "preset") => FullyPopulated(enhancedLibrary[i].preset)

\* the ids of a library, its entries with a given id, and the position of
\* the entry with a given id
IdsOf(library) == {library[i].id : i \in 1..Len(library)}
NoDuplicateIds(library) ==
  \A i, j \in 1..Len(library) : library[i].id = library[j].id => i = j
PositionOf(library, id) == CHOOSE i \in 1..Len(library) : library[i].id = id

\* the entries of `after` are entries of `before`, in the order they have there
KeepsOrder(before, after) ==
  /\ \A i \in 1..Len(after) :
        after[i].id \in IdsOf(before) /\ after[i] = before[PositionOf(before, after[i].id)]
  /\ \A i, j \in 1..Len(after) :
        i < j => PositionOf(before, after[i].id) < PositionOf(before, after[j].id)

\* library is `before` after item was added: item is first, no other entry
\* has its id, and the other entries of `before` follow in their order
AddedInFront(before, item, library) ==
  /\ Len(library) > 0
  /\ library[1] = item
  /\ IdsOf(Tail(library)) = IdsOf(before) \ {item.id}
  /\ KeepsOrder(before, Tail(library))

\* an entry of the library enhanced once more: same id, another result
ReAdds(library) ==
  {Merge(library[i], [result |-> EnhancedOf(library[i].result)]) : i \in 1..Len(library)}

\* C21: adding an entry to the library replaces the entry with the same id
\* and puts the new entry first, the other entries keep their relative
\* order; from an empty library, every sequence of additions, removals and
\* clears leaves a library without two entries of one id, in the order of
\* addition, newest first.
C21_LibraryNewestFirst ==
  [][ /\ NoDuplicateIds(enhancedLibrary')
      /\ enhancedLibrary' # enhancedLibrary =>
            \/ enhancedLibrary' = <<>>
            \/ /\ IdsOf(enhancedLibrary') \subseteq IdsOf(enhancedLibrary)
               /\ KeepsOrder(enhancedLibrary, enhancedLibrary')
            \/ /\ Len(enhancedLibrary') > 0
               /\ AddedInFront(enhancedLibrary, enhancedLibrary'[1], enhancedLibrary')
      /\ \A item \in ReAdds(enhancedLibrary) :
            /\ AddedInFront(enhancedLibrary, item, AddToLibrary(enhancedLibrary, item))
            /\ NoDuplicateIds(AddToLibrary(enhancedLibrary, item))
            /\ Len(AddToLibrary(enhancedLibrary, item)) = Len(enhancedLibrary) ]_vars

\* two results are in the library, the job enqueued first was added last, and
\* the result of a third enhancement was deleted from the library
C21_Witness ==
  /\ Len(enhancedLibrary) = 2
  /\ enhancedLibrary[1].id[2] = "batch" /\ enhancedLibrary[2].id[2] = "batch"
  /\ enhancedLibrary[1].id[3] < enhancedLibrary[2].id[3]
  /\ enhancedImage # Null
  /\ AddToLibrary(enhancedLibrary, Merge(enhancedLibrary[2], [result |-> "again"]))[1].id
        = enhancedLibrary[2].id

\* a parsed record that has an id, a name and settings
HasRequiredFields(p) == TruthyText(p, "id") /\ TruthyText(p, "name") /\ Has(p, "tools")

\* the first position of `input` that holds a record an import can take, with the id `id`
FirstImportable(input, id) ==
  CHOOSE i \in 1..Len(input) :
    /\ HasRequiredFields(input[i]) /\ ~TruthyFlag(input[i], "isBuiltIn") /\ input[i].id = id
    /\ \A j \in 1..(i - 1) :
          ~(HasRequiredFields(input[j]) /\ ~TruthyFlag(input[j], "isBuiltIn") /\ input[j].id = id)

\* `after` is `before` with the records of `input` imported, first writer wins
ImportedFirstWriterWins(before, input, after) ==
  LET added == SubSeq(after, Len(before) + 1, Len(after))
      localIds == {before[i].id : i \in 1..Len(before)}
      addedIds == {added[i].id : i \in 1..Len(added)}
  IN  /\ Len(after) >= Len(before)
      /\ SubSeq(after, 1, Len(before)) = before
      /\ \A k \in 1..Len(added) :
            /\ HasRequiredFields(added[k])
            /\ added[k].id \notin localIds
            /\ added[k] = input[FirstImportable(input, added[k].id)]
      /\ \A k, l \in 1..Len(added) :
            k < l => FirstImportable(input, added[k].id) < FirstImportable(input, added[l].id)
      /\ \A i \in 1..Len(input) :
            (HasRequiredFields(input[i]) /\ ~TruthyFlag(input[i], "isBuiltIn")
               /\ input[i].id \notin localIds) => input[i].id \in addedIds

\* C22: an import of preset records is first-writer-wins: a record without
\* id, name or settings is skipped, a record whose id a local preset or an
\* earlier record of the same import has is skipped, the local presets stay
\* as they are and where they are, and the records taken are appended in
\* the order of the input.
C22_ImportFirstWriterWins ==
  [][\A presets \in PresetFiles :
       IMPORT_PRESETS(presets) => ImportedFirstWriterWins(userPresets, presets, userPresets')]_vars

\* the file of five records was imported after the file of one: its records
\* with the id of the local preset were skipped, as were the record without a
\* name and the one flagged as built-in
C22_Witness ==
  /\ userPresets = <<StoredCrop, StoredOld>>
  /\ ImportedFirstWriterWins(<<StoredCrop>>,
                             <<StoredBuiltIn, StoredNameless, StoredCropAgain, StoredOld, StoredCrop>>,
                             userPresets)

\* C23: the load of the persisted presets and library at startup tolerates
\* every stored value (absent, empty, unparseable, parseable but not a list
\* of records) by falling back to empty collections: the application never
\* fails on it, and userPresets and enhancedLibrary are lists afterwards.
C23_StartupLoadTolerant == ~renderError

\* the status a job of the queue had before a step and has after it
StatusSteps ==
  {<<batchQueue[i].status, batchQueue'[j].status>> :
     <<i, j>> \in {<<k, l>> \in (1..Len(batchQueue)) \X (1..Len(batchQueue')) :
                     batchQueue[k].id = batchQueue'[l].id}}

\* C24: within a job the status transitions are ordered, never skipped and
\* never reversed: a job becomes 'done' or 'error' only directly from
\* 'processing', becomes 'processing' only from 'pending', and never
\* returns to 'pending' or 'processing' from a later status.
C24_TransitionsOrdered ==
  [][\A step \in StatusSteps :
       step[1] # step[2] =>
         /\ step[2] \in {"done", "error"} => step[1] = "processing"
         /\ step[2] = "processing" => step[1] = "pending"
         /\ step[2] # "pending"]_vars

\* C25: the scheduler is work-conserving: after every run of the scheduler
\* effect that admitted a job, either no job is pending or exactly
\* BATCH_CONCURRENCY jobs are processing; of three jobs enqueued two are
\* processing and one is pending, and it is admitted after one of them ended.
C25_WorkConserving ==
  [][admitted' # admitted =>
       \/ Len(PendingItems(batchQueue')) = 0
       \/ ProcessingCount(batchQueue') = BATCH_CONCURRENCY]_vars

\* of three jobs the first has failed, and the job that waited behind the
\* first two has been admitted in its place
C25_Witness ==
  /\ Len(batchQueue) = 3
  /\ Len(admitted) = 3
  /\ batchQueue[1].status = "error"
  /\ ProcessingCount(batchQueue) = BATCH_CONCURRENCY
  /\ Len(PendingItems(batchQueue)) = 0

\* C26: a run of the scheduler effect on a queue whose processing count
\* equals the cap, or that has no pending job, starts no call and changes no
\* job; a second run on the queue the first run left admits nothing more.
\* Every step that admits jobs is one run of the effect on the queue.
C26_TickIdempotent ==
  [][/\ (ProcessingCount(batchQueue) = BATCH_CONCURRENCY \/ Len(PendingItems(batchQueue)) = 0)
          => /\ SchedulerRun(batchQueue) = [queue |-> batchQueue, started |-> <<>>]
             /\ admitted' = admitted
     /\ SchedulerRun(SchedulerRun(batchQueue).queue)
          = [queue |-> SchedulerRun(batchQueue).queue, started |-> <<>>]
     /\ admitted' # admitted
          => /\ batchQueue' = SchedulerRun(batchQueue).queue
             /\ admitted' = admitted \o [i \in 1..Len(SchedulerRun(batchQueue).started) |->
                                           SchedulerRun(batchQueue).started[i].id]
             /\ Cardinality(calls') = Cardinality(calls) + Len(SchedulerRun(batchQueue).started)
             /\ SchedulerRun(batchQueue').started = <<>>]_vars

\* the effect has run and admitted two jobs, a third job waits, and another
\* run on this queue starts nothing
C26_Witness ==
  /\ Len(admitted) = BATCH_CONCURRENCY
  /\ Cardinality(calls) = BATCH_CONCURRENCY
  /\ Len(PendingItems(batchQueue)) = 1
  /\ SchedulerRun(batchQueue).started = <<>>

\* the queue after the call of the job `id` failed with `msg`: only that
\* job has changed, to the status 'error' with the message; if it held a
\* slot the slot is free, and a run of the scheduler admits a waiting job
FailureIsolated(before, id, msg, after) ==
  /\ Len(after) = Len(before)
  /\ \A i \in 1..Len(before) :
        IF before[i].id = id
        THEN /\ after[i].status = "error"
             /\ after[i].error = msg
             /\ msg # ""
             /\ \A k \in (DOMAIN before[i]) \ {"status", "error"} :
                   k \in DOMAIN after[i] /\ after[i][k] = before[i][k]
             /\ before[i].status = "processing"
                   => /\ ProcessingCount(after) = ProcessingCount(before) - 1
                      /\ Len(PendingItems(after)) > 0 => SchedulerRun(after).started # <<>>
        ELSE after[i] = before[i]

\* C27: when the call of one job fails only that job changes, to the status
\* 'error' with a non-empty message; every other job keeps its status,
\* snapshot, result and error, the slot of the failed job is released, and
\* the pending jobs continue to be admitted.
C27_FailureIsolated ==
  [][\A c \in calls : \A msg \in FailureMessages :
       BatchFailure(c, msg) =>
         /\ FailureIsolated(batchQueue, c.item.id, msg, batchQueue')
         /\ enhancedLibrary' = enhancedLibrary
         /\ tools' = tools /\ currentImage' = currentImage /\ ~renderError']_vars

\* the first of three jobs failed, the job that waited behind it was admitted
\* and is done, the second job is still being processed
C27_Witness ==
  /\ Len(batchQueue) = 3
  /\ batchQueue[1].status = "error" /\ batchQueue[1].error # ""
  /\ batchQueue[2].status = "processing"
  /\ batchQueue[3].status = "done"

\* the job with the serial number n is in the queue and waits or is processed
JobActive(n) ==
  \E i \in 1..Len(batchQueue) :
    batchQueue[i].id[3] = n /\ batchQueue[i].status \in {"pending", "processing"}

\* C28: if every call eventually returns and the scheduler effect runs after
\* every change of the queue, every enqueued job that CLEAR_BATCH does not
\* remove eventually has a terminal status (done, error or cancelled): no
\* job is pending or processing forever.
C28_Progress == \A n \in 1..MaxFairJobs : JobActive(n) ~> ~JobActive(n)

\* three jobs were enqueued, the third waited for a slot, and all three have
\* ended without a cancel
C28_Witness ==
  /\ Len(batchQueue) = 3
  /\ Len(admitted) = 3
  /\ calls = {}
  /\ \A i \in 1..3 : batchQueue[i].status \in {"done", "error"}

\* the files the selections are made of, and the size of the file a job was read from
SelectedFiles == {FileA, FileB, FileNotes, FileHuge}
SizeOfSource(job) == (CHOOSE f \in SelectedFiles : f.name = job.file.name).size

\* C29: files are validated before a job is created: no job of the queue has
\* a file type that is not an image type or was read from a file larger than
\* 15 MB; a selection without an image, or with an image larger than the
\* limit, creates no job and leaves the queue, the current image and the
\* history unchanged.
C29_ValidatedBeforeEnqueue ==
  [][/\ \A i \in 1..Len(batchQueue') :
          /\ batchQueue'[i].file.type[1] = "image"
          /\ SizeOfSource(batchQueue'[i]) <= 15 * 1024 * 1024
     /\ \A files \in Selections :
          (processFiles(files) /\ ~Accepted(files))
          => /\ batchQueue' = batchQueue
             /\ nextId' = nextId
             /\ currentImage' = currentImage
             /\ history' = history /\ historyIndex' = historyIndex]_vars

\* the image of a selection that held a text file too is the only job of the
\* queue; its file is exactly as large as the limit
C29_Witness ==
  /\ Len(batchQueue) = 1
  /\ batchQueue[1].file.name = FileB.name
  /\ SizeOfSource(batchQueue[1]) = MAX_IMAGE_UPLOAD_SIZE_BYTES
  /\ currentImage.name = FileB.name

\* UNDO and REDO on the edit session s: a no-op at the first and at the
\* last entry, else one step of the index over the same entries
EndsAreNoOps(s) ==
  /\ s.historyIndex = 0 => Undo(s) = s
  /\ s.historyIndex = Len(s.history) - 1 => Redo(s) = s
  /\ s.historyIndex > 0
       => Undo(s).historyIndex = s.historyIndex - 1 /\ Undo(s).history = s.history
  /\ s.historyIndex < Len(s.history) - 1
       => Redo(s).historyIndex = s.historyIndex + 1 /\ Redo(s).history = s.history

\* C30: undo at index 0 and redo at the last index return the state
\* unchanged (history, index, live settings and every other field) and raise
\* no error; otherwise undo decrements and redo increments the index by
\* exactly one and the history entries stay as they are.
C30_UndoRedoEnds ==
  [][/\ EndsAreNoOps(EditSession) /\ EndsAreNoOps(EditSession')
     /\ (UNDO \/ REDO)
          => /\ history' = history
             /\ historyIndex = 0 /\ UNDO => historyIndex' = historyIndex /\ tools' = tools
             /\ historyIndex = Len(history) - 1 /\ REDO => historyIndex' = historyIndex /\ tools' = tools
             /\ historyIndex' \in {historyIndex - 1, historyIndex, historyIndex + 1}
             /\ <<currentImage, enhancedImage, isLoading, currentPrompt, userPresets,
                  showBuiltInPresets, batchQueue, enhancedLibrary, calls>>'
                  = <<currentImage, enhancedImage, isLoading, currentPrompt, userPresets,
                      showBuiltInPresets, batchQueue, enhancedLibrary, calls>>
             /\ ~renderError'
     /\ UNDO => EditSession' = Undo(EditSession)
     /\ REDO => EditSession' = Redo(EditSession)]_vars

\* an edit was undone: the index is 0 with an entry behind it, so another
\* undo is a no-op and a redo moves the index forward
C30_Witness ==
  /\ historyIndex = 0
  /\ Len(history) = 2
  /\ tools = history[1].tools
  /\ Undo(EditSession) = EditSession
  /\ Redo(EditSession).historyIndex = 1
  /\ Redo(Redo(EditSession)) = Redo(EditSession)

\* C31: in every reachable state the live settings are the history entry
\* at the current index, after any sequence of UPDATE_TOOL, LOAD_PRESET,
\* UNDO, REDO, SET_IMAGE, SELECT_BATCH_ITEM and RESET_STATE.
C31_LiveSettingsAreCurrentEntry ==
  /\ historyIndex + 1 \in 1..Len(history)
  /\ tools = history[historyIndex + 1].tools

\* the load of a built-in preset was undone: the live settings are the
\* entry at index 0 again, and not the entry of the preset behind it
C31_Witness ==
  /\ Len(history) = 2
  /\ historyIndex = 0
  /\ tools = history[1].tools
  /\ tools # history[2].tools
  /\ \E i \in 1..Len(BUILT_IN_PRESETS) : history[2].tools = BUILT_IN_PRESETS[i].tools

TakesFreeText(t, g) ==
  \/ g = "distractions"
  \/ g = "hairStyling" /\ t.hairStyling.mode = "custom"
  \/ g = "background" /\ t.background.mode = "custom"
FreeTextOf(t, g) == IF g = "distractions" THEN t.distractions.list ELSE t[g].customInstruction

\* the free texts embedded in the clauses of group g of the instruction p
TextsOf(p, g) ==
  { NumberedOps(p)[i][k].text :
      <<i, k>> \in { ik \in (1..Len(NumberedOps(p))) \X (1..8) :
                       /\ Rank(NumberedOps(p)[ik[1]]) # 0
                       /\ CanonicalOrder[Rank(NumberedOps(p)[ik[1]])] = g
                       /\ ik[2] <= Len(NumberedOps(p)[ik[1]])
                       /\ "text" \in DOMAIN NumberedOps(p)[ik[1]][ik[2]] } }

\* the free text of group g is embedded trimmed, and a text that is empty
\* after trimming leaves the group without a clause
TrimmedOrSuppressed(t, g) ==
  IF Trim(FreeTextOf(t, g)) = <<>>
  THEN ~Contributes(buildPrompt(t), g)
  ELSE TextsOf(buildPrompt(t), g) = {Trim(FreeTextOf(t, g))}

\* C33: free-text fields are trimmed before use, and an enabled tool whose
\* free-text field is empty after trimming contributes no clause: for the
\* distraction list and for the custom instructions of hair and background.
C33_FreeTextTrimmedOrSuppressed ==
  \A g \in {"distractions", "hairStyling", "background"} :
    (tools[g].enabled /\ TakesFreeText(tools, g)) => TrimmedOrSuppressed(tools, g)

\* the part of C33 that is about the distraction list alone
C33_DistractionsTrimmedOrSuppressed ==
  tools.distractions.enabled => TrimmedOrSuppressed(tools, "distractions")

\* the numeric fields of the tool groups that have sliders, and slider positions
NumericFields(g) ==
  CASE g = "colorTone" -> {"temp", "tint", "exposure", "contrast", "highlights", "shadows",
                           "vibrance", "saturation"}
    [] g = "noiseAndOptics" -> {"lumaNoise", "chromaNoise", "caFix", "vignette", "distortion"}
    [] OTHER -> {}
SliderPositions == {-2, 0, 1, 3}

\* the settings t with the field f of group g at n
WithNumber(t, g, f, n) == [t EXCEPT ![g] = Merge(t[g], [x \in {f} |-> n])]

\* the numbers embedded in the clauses of group g of the instruction p, the
\* number of the operation aside
NumbersOf(p, g) ==
  { NumberedOps(p)[ik[1]][ik[2]].num :
      ik \in { ik \in (1..Len(NumberedOps(p))) \X (3..24) :
                 /\ Rank(NumberedOps(p)[ik[1]]) # 0
                 /\ CanonicalOrder[Rank(NumberedOps(p)[ik[1]])] = g
                 /\ ik[2] <= Len(NumberedOps(p)[ik[1]])
                 /\ "num" \in DOMAIN NumberedOps(p)[ik[1]][ik[2]] } }

\* the field f of group g is embedded in the instruction compiled from t:
\* its value is among the numbers of the clause and another value gives
\* another instruction
Embedded(t, g, f) ==
  /\ t[g][f] \in NumbersOf(buildPrompt(t), g)
  /\ \A n \in SliderPositions \ {t[g][f]} : buildPrompt(WithNumber(t, g, f, n)) # buildPrompt(t)

\* C34: numeric parameters are embedded verbatim: every numeric field of an
\* enabled tool group that contributes a clause appears in the clause, so two
\* settings that differ in one such field compile to different instructions.
C34_NumbersEmbedded ==
  \A g \in {"colorTone", "noiseAndOptics"} :
    (tools[g].enabled /\ Contributes(buildPrompt(tools), g))
      => \A f \in NumericFields(g) : Embedded(tools, g, f)

\* the fields of C34 that the compiler does embed whenever the group has a
\* clause: exposure, contrast, vibrance and saturation
C34_ToneNumbersEmbedded ==
  tools.colorTone.enabled
    => \A f \in {"exposure", "contrast", "vibrance", "saturation"} : Embedded(tools, "colorTone", f)

\* the ids of the jobs whose calls return in the step
SettledIds == {c.item.id : c \in {d \in calls \ calls' : d.kind = "batch"}}

\* C35: a stored library entry is insulated from the scheduler: no queue
\* operation (cancel, a preset applied to the pending jobs, CLEAR_BATCH,
\* admission, the completion of a job with another id) changes the image,
\* result, prompt, snapshot or status of the entry, or removes it.
C35_LibraryEntryInsulated ==
  [][ \A i \in 1..Len(enhancedLibrary) :
        enhancedLibrary[i].id \notin SettledIds
          => \E j \in 1..Len(enhancedLibrary') : enhancedLibrary'[j] = enhancedLibrary[i] ]_vars

\* the library holds the result of a job that CLEAR_BATCH took out of the
\* queue and, in front of it, the result of a later job that ran with a
\* preset applied to it while it waited
C35_Witness ==
  /\ Len(enhancedLibrary) = 2
  /\ enhancedLibrary[2].id \notin IdsOf(batchQueue)
  /\ enhancedLibrary[1].id \in IdsOf(batchQueue)
  /\ enhancedLibrary[2].status = "done"
  /\ enhancedLibrary[1].preset # enhancedLibrary[2].preset

\* the calls that return in the step for a job that is no longer in the queue
LateCalls == {c \in calls \ calls' : c.kind = "batch" /\ c.item.id \notin IdsOf(batchQueue)}

\* C36: a late completion (success or failure) of a job that CLEAR_BATCH
\* removed from the queue while its call was in flight has no effect on the
\* state: the job is not put back into the queue and no entry for it is added
\* to the library.
C36_LateCompletionHasNoEffect ==
  [][ \A c \in LateCalls :
        /\ batchQueue' = batchQueue
        /\ enhancedLibrary' = enhancedLibrary ]_vars

\* the part of C36 that is about the queue alone
C36_LateCompletionKeepsQueue ==
  [][ \A c \in LateCalls : batchQueue' = batchQueue ]_vars

\* the single-image calls that return in the step after the image they were
\* started for was replaced on screen, or after a reset or an upload ended
\* the loading state they had set
StaleCalls ==
  {c \in calls \ calls' : c.kind = "single" /\ (c.image # currentImage \/ ~isLoading)}

\* C37: if the current image is switched (SET_IMAGE, SELECT_BATCH_ITEM) or
\* the tools are reset (RESET_STATE) while a single-image enhancement is in
\* flight, the late ENHANCE_SUCCESS does not install the result of the old
\* image as the enhanced image shown for the current image.
C37_LateResultNotInstalled ==
  [][ \A c \in StaleCalls : enhancedImage' = enhancedImage ]_vars

\* the part of C37 that is about a late ENHANCE_FAILURE, which adds nothing
\* to the library
C37_LateFailureNotInstalled ==
  [][ \A c \in StaleCalls :
        enhancedLibrary' = enhancedLibrary => enhancedImage' = enhancedImage ]_vars

C39_LoadPresetIsHistoryStep ==
  [][\A i \in 1..Len(LoadablePresets) :
        LOAD_PRESET(LoadablePresets[i])
        => /\ history' = SubSeq(history, 1, historyIndex + 1) \o <<[tools |-> LoadablePresets[i].tools]>>
           /\ historyIndex' = historyIndex + 1
           /\ tools' = LoadablePresets[i].tools
           /\ Redo(EditSession') = EditSession'
           /\ Undo(EditSession').tools = tools
           /\ Undo(EditSession').historyIndex = historyIndex
           /\ Undo(EditSession').history = history'
           /\ Redo(Undo(EditSession')) = EditSession'
           /\ Redo(Undo(EditSession')).tools = LoadablePresets[i].tools]_vars

\* a preset was loaded over settings that were not the defaults: it is the
\* last entry and live, and an undo brings the earlier settings back
C39_Witness ==
  /\ Len(history) = 2
  /\ historyIndex = 1
  /\ \E i \in 1..Len(BUILT_IN_PRESETS) :
       /\ BUILT_IN_PRESETS[i].id \in LoadedPresets
       /\ tools = BUILT_IN_PRESETS[i].tools
  /\ history[1].tools # initialToolStates
  /\ Undo(EditSession).tools = history[1].tools
  /\ Undo(EditSession).tools # tools
  /\ Redo(Undo(EditSession)) = EditSession

====
